---- MODULE Spec2Model ----
(***************************************************************************)
(* touchdeck: the media control and synchronization subsystem.             *)
(*                                                                         *)
(* The module holds one state machine per component, each with its own     *)
(* specification over the shared variable tuple:                           *)
(*   Spec / FairSpec  the command executor, one execution at a time: the   *)
(*                    worker, its child process and clock, the handlers    *)
(*   WindowSpec       the quick-action handlers of DeckWindow under        *)
(*                    overlapping triggers, with commands that print       *)
(*                    nothing and have no timeout                          *)
(*   LyricsSpec       the lyrics resolver of DeckWindow: fingerprint       *)
(*                    changes, the fetch tasks, their cancellation         *)
(*   FetchSpec        one call of LrclibClient.fetch_synced                *)
(*   CandSpec         one call of _build_query_candidates on strings of    *)
(*                    character classes                                    *)
(*   LineSpec         one call of line_at on sorted lyric lines            *)
(*   ParseSpec        one call of _parse_synced_lyrics on the LRC text of  *)
(*                    a list of timed lines                                *)
(*   CoerceSpec       one call of _coerce_lyrics_cache on a decoded JSON   *)
(*                    value                                                *)
(*   CacheSpec        the lyrics resolver together with the handlers that  *)
(*                    replace or save the settings                         *)
(*   MediaSpec        MediaManager: state reads and mutating calls on the  *)
(*                    provider the settings accessor names                 *)
(*   MprisSpec        MprisService.now_playing: enumeration, selection     *)
(*                    and property reads under the poll lock               *)
(*   SpotifySpec      SpotifyProvider: the token check, the refresh and    *)
(*                    the API call of each operation under the lock        *)
(*   ArtSpec          SpotifyProvider._to_data_url: the one-entry cover    *)
(*                    art cache under overlapping polls                    *)
(*   AuthSpec         SpotifyProvider.authenticate: the loopback listener  *)
(*                    and the code exchange                                *)
(*   FmtSpec          one call of DeckWindow._format_custom_command on a   *)
(*                    template of braces and characters                    *)
(*   QaSpec           one call of filter_quick_action_keys                 *)
(*   StSpec           save_settings, reset_settings and load_settings on   *)
(*                    the settings file                                    *)
(*   KeysSpec         the command executor under overlapping triggers of   *)
(*                    commands that print and have no timeout              *)
(*   DefsSpec         the quick-action handlers while the settings         *)
(*                    replace the list of custom actions                   *)
(*   TickSpec         the polls of the music, one task per timer tick      *)
(*   ArtConfigSpec    the cover art cache with update_config between the   *)
(*                    steps of the polls                                   *)
(*   XferSpec         the playback transfer: shell, facade and provider    *)
(* A specification leaves the variables it has no action for at their      *)
(* initial values.                                                         *)
(***************************************************************************)
EXTENDS Integers, Sequences, FiniteSets, TLC

VARIABLES
    \* ---- command executor: DeckWindow (main thread) ----
    running,      \* _running_custom_actions: key -> handle, NoHandle when absent
    coro,         \* position of each _run_custom_action coroutine / worker run
    wkey,         \* action.key of the run
    wtimeout,     \* action.timeout_ms handed to the worker
    cancel_event, \* the threading.Event of the run
    \* ---- command executor: _CommandWorker.run (worker thread) ----
    elapsed,      \* monotonic() - start, in clock units
    timed_out,    \* local timed_out
    canceled,     \* local canceled
    \* ---- the child process and the clock (environment) ----
    proc,         \* "none" | "running" | "exited"
    exit_code,    \* returncode once exited
    out_avail,    \* a line is readable on the child's stdout
    \* ---- signals emitted by the worker, not yet handled ----
    outQ,         \* output signals pending (equal lines, coalesced)
    errQ,         \* an error signal pending
    finQ,         \* the finished signal pending: <<code, timed_out, canceled>>
    \* ---- history of each run ----
    hist,
    \* ---- lyrics resolver state of DeckWindow ----
    lyrics_track_key, \* self._lyrics_track_key
    held_lyrics,      \* self._lyrics
    shown_lyrics,     \* page_music._lyrics (what the displayed line is read from)
    lyrics_task,      \* self._lyrics_task: a task id, 0 for None
    ftask,            \* the _fetch_lyrics tasks: state and track_key
    lyrics_cache,     \* settings.lyrics_cache
    lyr_hist,         \* the last write of a fetch outcome
    lookups,          \* fetches started since the fingerprint last changed
    \* ---- one call of LrclibClient.fetch_synced ----
    fs_pc,            \* "idle", "loop", "await" (in to_thread), "done"
    fs_n,             \* len(queries)
    fs_i,             \* position of the for loop in queries
    saw_not_found,
    saw_other_failure,
    fs_result,        \* how the call ended
    fs_requested,     \* candidates requested so far, in request order
    fs_outcomes,      \* what each finished _request did
    \* ---- one call of _build_query_candidates ----
    q_pc,             \* "idle" before the call, "done" after it
    q_in,             \* the arguments of the call
    q_out,            \* the list it returned
    \* ---- one call of SyncedLyrics.line_at ----
    la_pc,            \* "idle" before the call, "done" after it
    la_lines,         \* self.lines
    la_pos,           \* position_ms
    la_ret,           \* the text returned
    \* ---- one call of _parse_synced_lyrics ----
    lp_pc,            \* "idle" before the call, "done" after it
    lp_in,            \* the (at_ms, text) lines encoded, in their order
    lp_text,          \* lrc_text: the raw lines, each a sequence of tokens
    lp_out,           \* the SyncedLyrics returned, or None
    \* ---- one call of _coerce_lyrics_cache ----
    cc_pc,            \* "idle" before the call, "done" after it
    cc_in,            \* val, the lyrics_cache value read from the settings file
    cc_out,           \* the cache returned
    \* ---- the last window operation on the settings ----
    last_op,          \* "none", "page_change", "toggle", "clear", "transfer", "restart"
    \* ---- MediaManager and the settings accessor ----
    media_source,     \* what the settings accessor returns
    media_lock,       \* self._lock: the call holding it, 0 when free
    mcall,            \* the facade calls in progress
    \* ---- MprisService ----
    preferred,        \* self._preferred: "" for None
    mpris_lock,       \* self._lock: the poll holding it, 0 when free
    poll,             \* the now_playing calls in progress
    last_chosen,      \* the player the latest selection returned (history)
    \* ---- SpotifyProvider: the token and the API calls ----
    sp_creds,         \* client id and client secret are both set
    sp_auth,          \* self._auth is not None
    sp_built,         \* the credentials self._auth and self._client stem from
    sp_token,         \* the token in the cache file
    sp_lock,          \* self._lock: the operation holding it, 0 when free
    sp_op,            \* the provider operations in progress
    \* ---- SpotifyProvider: the artwork cache ----
    last_art_http_url,  \* self._last_art_http_url: "" for None
    last_art_data_url,  \* self._last_art_data_url: "" for None
    art_lock,           \* self._art_lock: the poll holding it, 0 when free
    art_prev_url,       \* the URL the latest finished poll resolved (history)
    apoll,              \* the get_state polls past their playback read
    \* ---- SpotifyProvider.authenticate ----
    auth_port,        \* the attempt whose listener is bound to the port, 0 when free
    attempt,          \* the authenticate calls in progress
    \* ---- DeckWindow._format_custom_command ----
    fm_pc,            \* "idle" | "done"
    fm_template,      \* the command template
    fm_title,         \* now_playing.title
    fm_out,           \* the command returned
    \* ---- filter_quick_action_keys ----
    qa_pc,            \* "idle" | "done"
    qa_keys,          \* the keys given (or None)
    qa_custom,        \* the custom actions given
    qa_out,           \* the list returned
    \* ---- load_settings and save_settings ----
    st_pc,            \* "idle" | "written" | "reset" | "loaded"
    st_file,          \* the settings file
    st_writer,        \* who wrote the file: "none" | "save_settings" | "other"
    st_saved,         \* the Settings given to the last save_settings
    st_ret,           \* what load_settings returned or that it raised
    \* ---- DeckWindow._custom_actions and the cancel requests ----
    window_actions,   \* the keys of self._custom_actions
    cancel_seen,      \* the last cancel request: its key, and whether it was passed on
    \* ---- DeckWindow._poll_music ----
    mpoll,            \* the _poll_music_async tasks
    polls_started,    \* number of polls started so far
    applied_poll,     \* start number of the poll whose snapshot was applied last, 0 at first
    \* ---- the playback transfer ----
    sp_device_id,     \* SpotifyProvider._device_id: "" for None
    saved_device_id,  \* settings.spotify_device_id as saved: "" for None
    xfer,             \* the _spotify_transfer_async tasks
    xfer_hist         \* the transfer that ended last (history)

cmdVars == <<running, coro, wkey, wtimeout, cancel_event, elapsed, timed_out,
             canceled, proc, exit_code, out_avail, outQ, errQ,
             finQ, hist>>

lyrVars == <<lyrics_track_key, held_lyrics, shown_lyrics, lyrics_task, ftask,
             lyrics_cache, lyr_hist, lookups>>

fetchVars == <<fs_pc, fs_n, fs_i, saw_not_found, saw_other_failure, fs_result,
               fs_requested, fs_outcomes>>

candVars == <<q_pc, q_in, q_out>>

lineVars == <<la_pc, la_lines, la_pos, la_ret>>

parseVars == <<lp_pc, lp_in, lp_text, lp_out>>

coerceVars == <<cc_pc, cc_in, cc_out>>

opVars == <<last_op>>

mediaVars == <<media_source, media_lock, mcall>>

mprisVars == <<preferred, mpris_lock, poll, last_chosen>>

spVars == <<sp_creds, sp_auth, sp_built, sp_token, sp_lock, sp_op>>

artVars == <<last_art_http_url, last_art_data_url, art_lock, art_prev_url, apoll>>

authVars == <<auth_port, attempt>>

fmtVars == <<fm_pc, fm_template, fm_title, fm_out>>

qaVars == <<qa_pc, qa_keys, qa_custom, qa_out>>

stVars == <<st_pc, st_file, st_writer, st_saved, st_ret>>

defsVars == <<window_actions, cancel_seen>>

tickVars == <<mpoll, polls_started, applied_poll>>

xferVars == <<sp_device_id, saved_device_id, xfer, xfer_hist>>

vars == <<cmdVars, lyrVars, fetchVars, candVars, lineVars, parseVars, coerceVars, opVars, mediaVars, mprisVars, spVars, artVars, authVars, fmtVars, qaVars, stVars, defsVars, tickVars, xferVars>>

\* what the command executor leaves alone
nonCmdVars == <<lyrVars, fetchVars, candVars, lineVars, parseVars, coerceVars, opVars, mediaVars, mprisVars, spVars, artVars, authVars, fmtVars, qaVars, stVars, defsVars, tickVars, xferVars>>
\* what the lyrics resolver leaves alone
nonLyrVars == <<cmdVars, fetchVars, candVars, lineVars, parseVars, coerceVars, opVars, mediaVars, mprisVars, spVars, artVars, authVars, fmtVars, qaVars, stVars, defsVars, tickVars, xferVars>>
\* what fetch_synced leaves alone
nonFetchVars == <<cmdVars, lyrVars, candVars, lineVars, parseVars, coerceVars, opVars, mediaVars, mprisVars, spVars, artVars, authVars, fmtVars, qaVars, stVars, defsVars, tickVars, xferVars>>
\* what _build_query_candidates leaves alone
nonCandVars == <<cmdVars, lyrVars, fetchVars, lineVars, parseVars, coerceVars, opVars, mediaVars, mprisVars, spVars, artVars, authVars, fmtVars, qaVars, stVars, defsVars, tickVars, xferVars>>

\* what line_at leaves alone
nonLineVars == <<cmdVars, lyrVars, fetchVars, candVars, parseVars, coerceVars, opVars, mediaVars, mprisVars, spVars, artVars, authVars, fmtVars, qaVars, stVars, defsVars, tickVars, xferVars>>

\* what _parse_synced_lyrics leaves alone
nonParseVars == <<cmdVars, lyrVars, fetchVars, candVars, lineVars, coerceVars, opVars, mediaVars, mprisVars, spVars, artVars, authVars, fmtVars, qaVars, stVars, defsVars, tickVars, xferVars>>

\* what _coerce_lyrics_cache leaves alone
nonCoerceVars == <<cmdVars, lyrVars, fetchVars, candVars, lineVars, parseVars, opVars, mediaVars, mprisVars, spVars, artVars, authVars, fmtVars, qaVars, stVars, defsVars, tickVars, xferVars>>


\* what the lyrics resolver with the settings operations leaves alone
nonCacheVars == <<cmdVars, fetchVars, candVars, lineVars, parseVars, coerceVars, mediaVars, mprisVars, spVars, artVars, authVars, fmtVars, qaVars, stVars, defsVars, tickVars, xferVars>>

\* what MediaManager leaves alone
nonMediaVars == <<cmdVars, lyrVars, fetchVars, candVars, lineVars, parseVars, coerceVars, opVars, mprisVars, spVars, artVars, authVars, fmtVars, qaVars, stVars, defsVars, tickVars, xferVars>>

\* what MprisService leaves alone
nonMprisVars == <<cmdVars, lyrVars, fetchVars, candVars, lineVars, parseVars, coerceVars, opVars, mediaVars, spVars, artVars, authVars, fmtVars, qaVars, stVars, defsVars, tickVars, xferVars>>

\* what SpotifyProvider leaves alone
nonSpVars == <<cmdVars, lyrVars, fetchVars, candVars, lineVars, parseVars, coerceVars, opVars, mediaVars, mprisVars, artVars, authVars, fmtVars, qaVars, stVars, defsVars, tickVars, xferVars>>
\* what update_config leaves alone
nonConfigVars == <<cmdVars, lyrVars, fetchVars, candVars, lineVars, parseVars, coerceVars, opVars, mediaVars, mprisVars, fmtVars, qaVars, stVars, defsVars, tickVars>>
\* what a sign-in leaves alone besides the provider's token state
nonSignInVars == <<cmdVars, lyrVars, fetchVars, candVars, lineVars, parseVars, coerceVars, opVars, mediaVars, mprisVars, artVars, fmtVars, qaVars, stVars, defsVars, tickVars, xferVars>>

\* what the artwork cache leaves alone
nonArtVars == <<cmdVars, lyrVars, fetchVars, candVars, lineVars, parseVars, coerceVars, opVars, mediaVars, mprisVars, spVars, authVars, fmtVars, qaVars, stVars, defsVars, tickVars, xferVars>>

\* what authenticate leaves alone
nonAuthVars == <<cmdVars, lyrVars, fetchVars, candVars, lineVars, parseVars, coerceVars, opVars, mediaVars, mprisVars, spVars, artVars, fmtVars, qaVars, stVars, defsVars, tickVars, xferVars>>

\* what _format_custom_command leaves alone
nonFmtVars == <<cmdVars, lyrVars, fetchVars, candVars, lineVars, parseVars, coerceVars, opVars, mediaVars, mprisVars, spVars, artVars, authVars, qaVars, stVars, defsVars, tickVars, xferVars>>

\* what filter_quick_action_keys leaves alone
nonQaVars == <<cmdVars, lyrVars, fetchVars, candVars, lineVars, parseVars, coerceVars, opVars, mediaVars, mprisVars, spVars, artVars, authVars, fmtVars, stVars, defsVars, tickVars, xferVars>>

\* what load_settings, save_settings and reset_settings leaves alone
nonStVars == <<cmdVars, lyrVars, fetchVars, candVars, lineVars, parseVars, coerceVars, opVars, mediaVars, mprisVars, spVars, artVars, authVars, fmtVars, qaVars, defsVars, tickVars, xferVars>>

\* what DeckWindow under settings changes leaves alone
nonDefsVars == <<cmdVars, lyrVars, fetchVars, candVars, lineVars, parseVars, coerceVars, opVars, mediaVars, mprisVars, spVars, artVars, authVars, fmtVars, qaVars, stVars, tickVars, xferVars>>
\* what a cancel request leaves alone, besides variables of the executor
nonCancelVars == <<lyrVars, fetchVars, candVars, lineVars, parseVars, coerceVars, opVars, mediaVars, mprisVars, spVars, artVars, authVars, fmtVars, qaVars, stVars, tickVars, xferVars>>

\* what _poll_music leaves alone
nonTickVars == <<cmdVars, lyrVars, fetchVars, candVars, lineVars, parseVars, coerceVars, opVars, mediaVars, mprisVars, spVars, artVars, authVars, fmtVars, qaVars, stVars, defsVars, xferVars>>

\* what the playback transfer leaves alone
nonXferVars == <<cmdVars, lyrVars, fetchVars, candVars, lineVars, parseVars, coerceVars, opVars, mediaVars, mprisVars, spVars, artVars, authVars, fmtVars, qaVars, stVars, defsVars, tickVars>>
\* what a transfer leaves alone, besides the lock of the facade
nonTransferVars == <<cmdVars, lyrVars, fetchVars, candVars, lineVars, parseVars, coerceVars, opVars, mprisVars, spVars, artVars, authVars, fmtVars, qaVars, stVars, defsVars, tickVars>>

----------------------------------------------------------------------------
(* Bounds of the command executor model *)

\* number of _run_custom_action tasks alive at a time
MaxRuns == 2
\* the elapsed time of a run stops advancing here
MaxElapsed == 2

Keys == {"k1", "k2"}
Runs == 1..MaxRuns
\* timeout_ms in clock units; 0 disables the timeout (guard of line 122)
Timeouts == {0, 1}

NoHandle == [run |-> 0, last_line |-> ""]
NoFin == <<>>
SIGTERM == 0 - 15
SIGKILL == 0 - 9

\* a notification of the quick actions and the level of the log entry
\* written with it
NoToast == [summary |-> "none", body |-> "", level |-> "none"]
Toast(summary, body, level) ==
    [summary |-> summary, body |-> body, level |-> level]

NoHist == [finished |-> 0,        \* finished signals emitted
           handled |-> 0,         \* finished signals handled by the window
           spawn_failed |-> FALSE,
           errored |-> FALSE,     \* an error signal was emitted
           term |-> FALSE,        \* proc.terminate() was called
           waited |-> FALSE,      \* the loop reached proc.wait(timeout=1)
           wait_expired |-> FALSE,\* that wait raised TimeoutExpired
           kill |-> FALSE,        \* proc.kill() was called
           overdue_seen |-> FALSE,\* the loop found elapsed_ms > timeout_ms
           overdue_alive |-> FALSE,\* child alive while elapsed > timeout
           printed |-> FALSE,     \* an output signal was emitted
           last_emitted |-> "",   \* the last text emitted: "out", "err"
           fin |-> <<0, FALSE, FALSE>>, \* the finished signal handled last
           found |-> FALSE,       \* its handler found the key running
           toasts |-> 0,          \* notifications shown by that handler
           toast |-> NoToast]     \* the last of them and its log entry

(* Bounds of the lyrics resolver model *)

\* number of _fetch_lyrics tasks alive at a time
MaxFetch == 3

FetchIds == 1..MaxFetch
Fingerprints == {"F1", "F2"}
NoKey == "None"
\* lyrics are identified by the fingerprint they were resolved for
NoLyrics == "None"
FreeTask == [st |-> "free", key |-> NoKey]
NoWrite == [writer |-> 0, key |-> NoKey, current |-> FALSE]

(* Bounds of the fetch_synced model *)

\* longest candidate list given to the loop of fetch_synced
MaxQueries == 4

NoResult == [kind |-> "running", from |-> 0]

(* Bounds of the _build_query_candidates model.  A string is a sequence of
   characters: "a" an ordinary character, " " white space, "(" and ")" an
   opening and a closing bracket of any of the three kinds, "-" a dash,
   "f" one of the words feat. ft. featuring, "," one of the separators
   , & / ; +  *)

\* longest title or artist drawn exhaustively
MaxLen == 5
\* longest duration drawn, in quarters of a second
MaxQuarters == 14

TitleChars == {"a", " ", "(", ")", "-"}
ArtistChars == {"a", " ", "f", ","}
FewTitles == {<<>>, <<"a">>, <<"a", "(", "a", ")">>, <<"(", "a", ")">>,
              <<"a", " ", "-", " ", "a">>}
FewArtists == {<<>>, <<"a">>, <<"a", " ", "f", " ", "a">>, <<"a", ",", "a">>}
Albums == {<<>>, <<"a">>, <<"a", "(", "a", ")">>}
Durations == {250 * q : q \in (0 - 1)..MaxQuarters}
NoArgs == [track_name |-> <<>>, artist_name |-> <<>>, album_name |-> <<>>,
           duration_ms |-> 0]
Args(t, a, b, d) ==
    [track_name |-> t, artist_name |-> a, album_name |-> b, duration_ms |-> d]

(* Bounds of the line_at model *)

\* most lines of a SyncedLyrics drawn
MaxLines == 3
\* largest timestamp drawn, in ms
MaxAt == 2

LyricLines == [at_ms : 0..MaxAt, text : {"x", "y"}]
Positions == 0..(MaxAt + 1)
\* (inputs are drawn only where a call can be made)
IfIdle(pc, S) == IF pc = "idle" THEN S ELSE {}

(* Bounds of the _parse_synced_lyrics model.  A raw line is a sequence of
   tokens: a character, or a stamp [m:ss] or [m:ss.f..] as _TS_RE matches
   it, with its minutes, seconds and fraction digits. *)

\* most lines of an LRC text drawn
MaxLrcLines == 3

StampValues == {0, 7, 1050, 61000}
LineTexts == {<<>>, <<"a">>, <<"b">>, <<" ", "a">>, <<"a", " ", "b">>}
LrcPairs == [at_ms : StampValues, text : LineTexts]
\* what the parser returns: SyncedLyrics(lines), or None
Parsed(lines) == [none |-> FALSE, lines |-> lines]
NoParse == [none |-> TRUE, lines |-> <<>>]
Ch(c) == [k |-> "ch", c |-> c, m |-> 0, s |-> 0, frac |-> <<>>]
Ts(m, s, frac) == [k |-> "ts", c |-> "", m |-> m, s |-> s, frac |-> frac]

(* Bounds of the _coerce_lyrics_cache model.  A value carries its Python
   type: ty is "int", "bool", "float", "str" or "none" (absent or null). *)

\* most entries of one cached list drawn
MaxEntries == 2

Val(ty, v) == [ty |-> ty, v |-> v]
AtVals == {Val("int", 0), Val("int", 2), Val("int", 0 - 1), Val("bool", 1),
           Val("float", 2), Val("str", 0), Val("none", 0)}
TextVals == {Val("str", "a"), Val("int", "3"), Val("none", "")}
\* an entry of a list: a dict with its at_ms and text, or something else
CacheEntries ==
    [dict : {TRUE}, at_ms : AtVals, text : TextVals]
    \cup {[dict |-> FALSE, at_ms |-> Val("none", 0), text |-> Val("none", "")]}
\* the keys of the mapping: one that is a str, one that is not
StrKeys == {"k"}
CacheKeys == StrKeys \cup {"123"}
Absent == [kind |-> "absent", items |-> <<>>]
NotAList == [kind |-> "other", items |-> <<>>]
ListOf(items) == [kind |-> "list", items |-> items]
\* a mapping gives every key its value, Absent for a key it does not hold
NoDict(m) == [dict |-> FALSE, map |-> m]
Dict(m) == [dict |-> TRUE, map |-> m]
EmptyCache == Dict([k \in CacheKeys |-> Absent])

(* The lyrics resolver with the settings operations has no further bound *)

EmptyLyricsCache == [f \in Fingerprints |-> NoLyrics]

(* Bounds of the MediaManager model *)

\* number of facade calls in progress at a time
MaxCalls == 3

CallIds == 1..MaxCalls
Sources == {"mpris", "spotify"}
\* how a provider call ends: it returns, raises MediaError, raises another
\* Exception
ProviderOutcomes == {"ok", "media_error", "exception"}
NoRes == [kind |-> "none", status |-> "", message |-> "", source |-> ""]
NoCall == [op |-> "none", pc |-> "idle", provider |-> "none", named |-> "none",
           outcome |-> "none", result |-> NoRes]

(* Bounds of the MprisService model *)

\* number of now_playing calls in progress at a time
MaxPolls == 2

PollIds == 1..MaxPolls
\* bus names of the players that may be on the bus
Players == {"a", "b"}
\* Python's None where a bus name is expected; bus names are non-empty
NoPlayer == ""
\* what a PlaybackStatus read gives: a status, or it raises
StatusReads == {"Playing", "Paused", "raise"}
Readings == [Players -> StatusReads]
\* the lists list_players can return: distinct bus names in any order
PlayerLists ==
    {<<>>} \cup {<<n>> : n \in Players}
           \cup {<<n, m>> : <<n, m>> \in {x \in Players \X Players : x[1] # x[2]}}
\* utils.py:40-58  the fields of MediaState the model follows; raised marks
\* an exception leaving now_playing instead of a state
MprisState(title, bus, control, seek) ==
    [raised |-> FALSE, title |-> title, bus_name |-> bus,
     can_control |-> control, can_seek |-> seek]
\* utils.py:40-58  MediaState()
IdleState == MprisState("Nothing Playing", "", FALSE, FALSE)
NoPoll == [pc |-> "idle", waited |-> FALSE, names |-> <<>>,
           statuses |-> [n \in Players |-> "Paused"],
           chosen_before |-> NoPlayer, picked |-> NoPlayer,
           errors |-> {}, result |-> IdleState]

(* Bounds of the SpotifyProvider model *)

\* number of provider operations in progress at a time
MaxOps == 2

OpIds == 1..MaxOps
\* the shapes of the operations: control stands for next, previous, seek,
\* set_volume, list_devices and transfer_playback, which differ only in the
\* API method they call
OpKinds == {"ensure_ready", "get_state", "play_pause", "control"}
\* the cache file: no token, an unexpired token, an expired token with and
\* without a refresh token
Tokens == {"none", "valid", "expired_rt", "expired_nort"}
\* what refresh_access_token does: returns a token, returns nothing, raises
RefreshOutcomes == {"token", "nothing", "raise"}
\* what an API call does: returns (for current_playback with or without
\* images in the item), raises SpotifyException with a status and a message,
\* or raises another exception such as a connection error
ApiOutcomes ==
    {[kind |-> k, status |-> 0, text |-> ""] :
        k \in {"ok", "ok_noart", "transport"}}
    \cup {[kind |-> "spotify_exception", status |-> s, text |-> t] :
             s \in {403, 404}, t \in {"premium", "no active device", "other", ""}}
NoFailure == [kind |-> "none", status |-> 0, text |-> ""]
\* how an operation ends: it returns, raises MediaError, raises something
\* else
SpResult(kind, error) == [kind |-> kind, error |-> error]
NoOp == [kind |-> "none", pc |-> "idle", check |-> 0, seen |-> "unread",
         refreshed |-> 0, late_refresh |-> FALSE, calls |-> 0,
         stage |-> "none", no_token |-> FALSE, failure |-> NoFailure,
         result |-> SpResult("none", ""),
         early |-> FALSE, auth |-> "none", client |-> "none"]
\* an auth manager or a client is absent ("none"), or was built from the
\* credentials now configured ("current") or from those an update_config
\* has replaced since ("previous")
NothingBuilt == [auth |-> "none", client |-> "none"]

(* Bounds of the artwork cache model *)

\* number of get_state polls in progress at a time
MaxArtPolls == 2

ArtPollIds == 1..MaxArtPolls
\* None, and the empty string, where a URL is expected
NoUrl == ""
\* the HTTP(S) cover URLs a playback item can carry, and a data: URL
HttpUrls == {"u", "v"}
ArtUrls == HttpUrls \cup {"data:d", NoUrl}
NoArtPoll == [pc |-> "idle", url |-> NoUrl, prev_url |-> NoUrl,
              downloads |-> 0, overlap |-> FALSE, data |-> NoUrl,
              reset |-> FALSE]

(* Bounds of the authenticate model *)

\* number of authenticate calls in progress at a time
MaxAttempts == 2
\* number of requests a listener receives
MaxRequests == 2

AttemptIds == 1..MaxAttempts
\* the GET requests that can reach the listener: any path, with or without
\* the code and state parameters
AuthRequests == [path : {"/callback", "/favicon.ico"}, code : BOOLEAN,
                 state : BOOLEAN]
NoRequest == [path |-> "", code |-> FALSE, state |-> FALSE]
NoAttempt == [pc |-> "idle", listener |-> "none", request |-> NoRequest,
              requests |-> 0, result |-> "none", auth |-> "none"]

(* Bounds of the _format_custom_command model.  A template is a sequence
   of symbols: the braces, "T" for the text title (the name of a
   placeholder of the fixed set when it stands alone between braces) and
   "a" for any other character. *)

\* length of a template
MaxTemplate == 6

TemplateSymbols == {"{", "}", "T", "a"}
Braces == {"{", "}"}
\* the values of now_playing.title
TitleValues == {<<>>, <<"v">>}

(* Bounds of the filter_quick_action_keys model *)

\* length of the list of keys given
MaxKeys == 5

\* quick_actions.py:23-38  _VALID_ACTION_KEYS
VALID_ACTION_KEYS ==
    {"play_pause", "next_track", "prev_track", "run_speedtest", "toggle_gpu"}
\* quick_actions.py:35
DEFAULT_QUICK_ACTION_KEYS == <<"play_pause", "next_track", "run_speedtest">>
\* quick_actions.py:36
DEFAULT_CUSTOM_ACTION_TIMEOUT_MS == 8000
\* quick_actions.py:15-20  CustomQuickAction
CustomAction(key) ==
    [key |-> key, title |-> "Echo", command |-> "echo hi", timeout_ms |-> 5000]
\* the custom actions given: none, one, two
CustomLists ==
    {<<>>, <<CustomAction("custom-echo")>>,
     <<CustomAction("custom-echo"), CustomAction("custom-b")>>}
\* the items of the list of keys: strings, and something that is no string
KeyItems ==
    {Val("str", k) : k \in {"play_pause", "run_speedtest", "custom-echo",
                              "custom-b", "unknown"}}
        \cup {Val("int", "7")}

(* Bounds of the load_settings and save_settings model.  The model keeps
   one field of Settings for every coercion load_settings uses. *)

\* length of the lists of page keys drawn
MaxPages == 2
\* length of the lists of quick-action keys drawn for a Settings value
MaxQuick == 2

\* settings.py:18-26
DEFAULT_PAGE_KEYS ==
    <<"music", "stats", "clock", "emoji", "speedtest", "developer", "settings">>
\* settings.py:27-34
DEFAULT_ENABLED_PAGE_KEYS ==
    <<"music", "stats", "clock", "emoji", "speedtest", "settings">>
\* themes.py:29-179  the keys of THEMES and DEFAULT_THEME_KEY
THEMES ==
    {"midnight", "glacier", "sunset", "dawn", "aurora", "berry", "neon"}
DEFAULT_THEME_KEY == "midnight"
None == Val("none", "")
\* settings.py:37-63  Settings()
DefaultSettings ==
    [media_source |-> "mpris",
     spotify_client_id |-> "",
     spotify_device_id |-> None,
     demo_mode |-> FALSE,
     music_poll_ms |-> 500,
     theme |-> DEFAULT_THEME_KEY,
     quick_actions |-> DEFAULT_QUICK_ACTION_KEYS,
     custom_actions |-> <<>>,
     enabled_pages |-> DEFAULT_ENABLED_PAGE_KEYS,
     lyrics_cache |-> EmptyCache]
\* what load_settings ends with
Returned(s) == [raised |-> FALSE, settings |-> s]
Raised == [raised |-> TRUE, settings |-> DefaultSettings]
\* a decoded JSON object without any key: data.get gives None for each
NoData ==
    [media_source |-> None,
     spotify_client_id |-> None,
     spotify_device_id |-> None,
     demo_mode |-> Val("none", 0),
     music_poll_ms |-> Val("none", 0),
     theme |-> None,
     quick_actions |-> Absent,
     custom_actions |-> Absent,
     enabled_pages |-> Absent,
     lyrics_cache |-> NoDict([k \in CacheKeys |-> Absent])]
\* the settings file: absent, not readable as text, not JSON, JSON that is
\* a list, a number, a string or null, or a JSON object
NoFile == [kind |-> "absent", data |-> NoData]
FileOf(kind) == [kind |-> kind, data |-> NoData]
ObjectFile(data) == [kind |-> "object", data |-> data]
NonObjectKinds == {"json_list", "json_number", "json_string", "json_null"}
\* the values of the keys of a file that save_settings did not write
MediaSourceVals ==
    {Val("str", "spotify"), Val("str", "Spotify"), Val("str", "vlc"),
     Val("int", "5")}
OptionalStrVals == {Val("str", "dev"), Val("str", ""), Val("int", "5")}
BoolVals == {Val("bool", 1), Val("bool", 0), Val("int", 1), Val("str", 1)}
\* an int, the text of an int, a float (v + 0.5), a bool, another text
IntVals ==
    {Val("int", 100), Val("int", 750), Val("int", 5000), Val("str", 750),
     Val("float", 750), Val("bool", 1), Val("text", 0)}
ThemeVals == {Val("str", "glacier"), Val("str", "solar"), Val("int", "5")}
PageItems ==
    {Val("str", k) : k \in {"clock", "music", "settings", "bogus"}}
        \cup {Val("int", "7")}
\* an entry of the list of custom actions: a dict with its keys, or not
ActionEntry(key, title, command, timeout_ms) ==
    [dict |-> TRUE, key |-> key, title |-> title, command |-> command,
     timeout_ms |-> timeout_ms]
ActionEntries ==
    {ActionEntry(Val("str", "custom-echo"), Val("str", "Echo"),
                 Val("str", "echo hi"), Val("int", 5000)),
     ActionEntry(Val("str", "custom-b"), Val("str", "Echo"),
                 Val("str", "echo hi"), Val("none", 0)),
     ActionEntry(Val("str", "custom-b"), Val("str", "Echo"),
                 Val("str", "echo hi"), Val("int", 100)),
     ActionEntry(Val("str", ""), Val("str", "Echo"),
                 Val("str", "echo hi"), Val("int", 5000)),
     ActionEntry(Val("str", "custom-echo"), None,
                 Val("str", "echo hi"), Val("int", 5000)),
     ActionEntry(Val("str", "custom-echo"), Val("str", "Echo"),
                 Val("str", ""), Val("int", 5000)),
     [dict |-> FALSE, key |-> None, title |-> None, command |-> None,
      timeout_ms |-> Val("none", 0)]}
\* the Settings values given to save_settings: every field within its range
\* and set
SavedScalars ==
    {[media_source |-> m, spotify_client_id |-> c, spotify_device_id |-> d,
      demo_mode |-> b, music_poll_ms |-> n, theme |-> t] :
        <<m, c, d, b, n, t>> \in
            {<<"mpris", "", None, FALSE, 500, "midnight">>,
             <<"spotify", "id", Val("str", "dev"), TRUE, 750, "glacier">>,
             <<"spotify", "", None, FALSE, 250, "midnight">>,
             <<"mpris", "id", Val("str", ""), TRUE, 3000, "neon">>}}
SavedPageKeys == {"music", "clock", "developer", "settings"}
SavedQuickKeys == {"play_pause", "toggle_gpu", "custom-echo"}
SavedCustomLists ==
    CustomLists
        \cup {<<CustomAction("custom-echo"), CustomAction("custom-echo")>>}
SavedEntry == [dict |-> TRUE, at_ms |-> Val("int", 2), text |-> Val("str", "a")]
SavedCaches ==
    {Dict("k" :> v @@ "123" :> Absent) :
        v \in {Absent, ListOf(<<>>), ListOf(<<SavedEntry>>),
               ListOf(<<SavedEntry, SavedEntry>>)}}

(* The custom actions of DeckWindow have no further bound *)

NoCancel == [key |-> "none", passed |-> FALSE]

(* Bounds of the _poll_music model *)

\* number of _poll_music_async tasks alive at a time
MaxMusicPolls == 3
\* number of timer ticks
MaxTicks == 4

MusicPollIds == 1..MaxMusicPolls
NoMusicPoll == [pc |-> "free", started |-> 0, provider |-> "mpris"]

(* Bounds of the playback transfer model *)

\* number of _spotify_transfer_async tasks alive at a time
MaxTransfers == 2

TransferIds == 1..MaxTransfers
NoDevice == ""
DeviceIds == {"d1", "d2"}
\* what the facade returns: None, or the message of the failure
NoError == "None"
NoTransfer == [pc |-> "idle", device |-> NoDevice]
NoTransferEnded == [kind |-> "none", device |-> NoDevice, err |-> NoError,
                    provider_before |-> NoDevice, provider_after |-> NoDevice,
                    saved_before |-> NoDevice, saved_after |-> NoDevice]

----------------------------------------------------------------------------
CmdInit ==
    /\ running = [k \in Keys |-> NoHandle]
    /\ coro = [w \in Runs |-> "free"]
    /\ wkey = [w \in Runs |-> "k1"]
    /\ wtimeout = [w \in Runs |-> 0]
    /\ cancel_event = [w \in Runs |-> FALSE]
    /\ elapsed = [w \in Runs |-> 0]
    /\ timed_out = [w \in Runs |-> FALSE]
    /\ canceled = [w \in Runs |-> FALSE]
    /\ proc = [w \in Runs |-> "none"]
    /\ exit_code = [w \in Runs |-> 0]
    /\ out_avail = [w \in Runs |-> FALSE]
    /\ outQ = [w \in Runs |-> FALSE]
    /\ errQ = [w \in Runs |-> FALSE]
    /\ finQ = [w \in Runs |-> NoFin]
    /\ hist = [w \in Runs |-> NoHist]

\* window.py:330-332 and settings.lyrics_cache, empty at first start
LyrInit ==
    /\ lyrics_track_key = NoKey
    /\ held_lyrics = NoLyrics
    /\ shown_lyrics = NoLyrics
    /\ lyrics_task = 0
    /\ ftask = [t \in FetchIds |-> FreeTask]
    /\ lyrics_cache = [f \in Fingerprints |-> NoLyrics]
    /\ lyr_hist = NoWrite
    /\ lookups = 0

\* LRCLIB.py:136  fetch_synced has not been called yet
FetchInit ==
    /\ fs_pc = "idle"
    /\ fs_n = 0
    /\ fs_i = 0
    /\ saw_not_found = FALSE
    /\ saw_other_failure = FALSE
    /\ fs_result = NoResult
    /\ fs_requested = <<>>
    /\ fs_outcomes = <<>>

\* LRCLIB.py:67  _build_query_candidates has not been called yet
CandInit ==
    /\ q_pc = "idle"
    /\ q_in = NoArgs
    /\ q_out = <<>>

\* LRCLIB.py:31  line_at has not been called yet
LineInit ==
    /\ la_pc = "idle"
    /\ la_lines = <<>>
    /\ la_pos = 0
    /\ la_ret = ""

\* LRCLIB.py:110  _parse_synced_lyrics has not been called yet
ParseInit ==
    /\ lp_pc = "idle"
    /\ lp_in = <<>>
    /\ lp_text = <<>>
    /\ lp_out = NoParse

\* settings.py:162  _coerce_lyrics_cache has not been called yet
CoerceInit ==
    /\ cc_pc = "idle"
    /\ cc_in = EmptyCache
    /\ cc_out = EmptyCache

\* no operation on the settings yet
OpInit == last_op = "none"

\* media.py:58-66  a new MediaManager; settings.py:39 media_source
MediaInit ==
    /\ media_source = "mpris"
    /\ media_lock = 0
    /\ mcall = [c \in CallIds |-> NoCall]

\* mpris.py:30-33  a new MprisService
MprisInit ==
    /\ preferred = NoPlayer
    /\ mpris_lock = 0
    /\ poll = [p \in PollIds |-> NoPoll]
    /\ last_chosen = NoPlayer

\* spotify_provider.py:45-61, settings.py:40-41  a new SpotifyProvider made
\* from the default settings, and no token file
SpInit ==
    /\ sp_creds = FALSE
    /\ sp_auth = FALSE
    /\ sp_built = NothingBuilt
    /\ sp_token = "none"
    /\ sp_lock = 0
    /\ sp_op = [o \in OpIds |-> NoOp]

\* spotify_provider.py:63-66  the artwork cache of a new SpotifyProvider
ArtInit ==
    /\ last_art_http_url = NoUrl
    /\ last_art_data_url = NoUrl
    /\ art_lock = 0
    /\ art_prev_url = NoUrl
    /\ apoll = [p \in ArtPollIds |-> NoArtPoll]

\* no sign-in attempt has been made
AuthInit ==
    /\ auth_port = 0
    /\ attempt = [a \in AttemptIds |-> NoAttempt]

\* window.py:1030  _format_custom_command has not been called yet
FmtInit ==
    /\ fm_pc = "idle"
    /\ fm_template = <<>>
    /\ fm_title = <<>>
    /\ fm_out = <<>>

\* quick_actions.py:84  filter_quick_action_keys has not been called yet
QaInit ==
    /\ qa_pc = "idle"
    /\ qa_keys = [kind |-> "absent", items |-> <<>>]
    /\ qa_custom = <<>>
    /\ qa_out = <<>>

\* settings.py:17  no settings file yet, nothing saved or loaded
StInit ==
    /\ st_pc = "idle"
    /\ st_file = NoFile
    /\ st_writer = "none"
    /\ st_saved = DefaultSettings
    /\ st_ret = Returned(DefaultSettings)

\* window.py:304  every custom action of the settings is defined
DefsInit ==
    /\ window_actions = Keys
    /\ cancel_seen = NoCancel

\* window.py:631-638  no poll of the music has started
TickInit ==
    /\ mpoll = [p \in MusicPollIds |-> NoMusicPoll]
    /\ polls_started = 0
    /\ applied_poll = 0

\* spotify_provider.py:55, settings.py:43, window.py:877-891  no device is
\* chosen and no transfer has been asked for
XferInit ==
    /\ sp_device_id = NoDevice
    /\ saved_device_id = NoDevice
    /\ xfer = [t \in TransferIds |-> NoTransfer]
    /\ xfer_hist = NoTransferEnded

Init == CmdInit /\ LyrInit /\ FetchInit /\ CandInit /\ LineInit /\ ParseInit /\ CoerceInit /\ OpInit /\ MediaInit /\ MprisInit /\ SpInit /\ ArtInit /\ AuthInit /\ FmtInit /\ QaInit /\ StInit /\ DefsInit /\ TickInit /\ XferInit

----------------------------------------------------------------------------
(* Helpers of the command executor *)

\* window.py:935  action.key in self._running_custom_actions
KeyIsRunning(k) == running[k] # NoHandle

\* window.py:122-124  self._timeout_ms > 0 and elapsed_ms > self._timeout_ms
Overdue(w) == wtimeout[w] > 0 /\ elapsed[w] > wtimeout[w]

\* window.py:139  canceled or timed_out
StopRequested(w) == canceled[w] \/ timed_out[w]

\* window.py:119-126  proc.terminate() follows each stop condition that holds
TerminateCalled(w) == cancel_event[w] \/ Overdue(w)

\* the two flags handed over in the wrong order
FinishedArgsSwapped(code, t, c) == <<code, c, t>>

\* window.py:160  int(exit_code or 0), timed_out, canceled
FinishedArgs(code, t, c) == <<code, t, c>>

\* the exit code looked at before the two flags
FinishedByExitCode(detail, code, t, c) ==
    IF code = 0 THEN Toast("succeeded", detail, "none")
    ELSE Toast("failed", detail, "ERROR")

\* window.py:1000-1017  the notification and the log entry of a completion
\* whose key was running: one show_notification in each branch
Finished(detail, code, t, c) ==
    IF t THEN Toast("timed out", detail, "WARN")
    ELSE IF c THEN Toast("canceled", detail, "WARN")
    ELSE IF code = 0 THEN Toast("succeeded", detail, "none")
    ELSE Toast("failed", detail, "ERROR")

\* the map is emptied
PopRunningAll(k) == [j \in Keys |-> NoHandle]

\* window.py:997  self._running_custom_actions.pop(key, None)
PopRunning(k) == [running EXCEPT ![k] = NoHandle]

\* the return is missing: the failed run falls through to the finally clause
AfterSpawnFailureFallsThrough == "finally"

\* window.py:113  return, after the signals of a failed Popen
AfterSpawnFailure == "done"

\* proc.kill() whatever the wait returned
KillAlways(expired) == TRUE

\* window.py:142-143  the handler of the expired wait calls proc.kill()
KillOnExpiry(expired) == expired

\* codes a child can end with by itself, or by the SIGTERM sent to it
NaturalCodes == {0, 1}
ExitCodes(w) == NaturalCodes \cup (IF hist[w].term THEN {SIGTERM} ELSE {})

\* run is inside the while loop of window.py:118-145
InLoop(w) == coro[w] \in {"loop", "select", "poll"}

\* thread.start() was called and run has not emitted finished
Executing(w) ==
    coro[w] \in {"started", "loop", "select", "poll", "wait", "drain", "finally"}

mainVars == <<running, wkey, wtimeout, cancel_event>>
workerVars == <<elapsed, timed_out, canceled>>
envVars == <<proc, exit_code, out_avail>>
sigVars == <<outQ, errQ, finQ>>

----------------------------------------------------------------------------
(* DeckWindow, on the event loop of the main thread *)

\* window.py:909-922  _on_quick_action_triggered for a custom key:
\* asyncio.create_task(self._run_custom_action(action))
Trigger(k, t) ==
    \E w \in Runs :
        /\ coro[w] = "free"
        /\ \A v \in Runs : v < w => coro[v] # "free"
        /\ coro' = [coro EXCEPT ![w] = "task"]
        /\ wkey' = [wkey EXCEPT ![w] = k]
        /\ wtimeout' = [wtimeout EXCEPT ![w] = t]
        /\ UNCHANGED <<running, cancel_event, workerVars, envVars, sigVars, hist>>
        /\ UNCHANGED nonCmdVars

\* a trigger while no other task or execution exists
SoloTrigger(k, t) ==
    /\ \A v \in Runs : coro[v] = "free"
    /\ Trigger(k, t)

\* window.py:935-937  the task starts: the dedup test, then the coroutine
\* suspends in await self._media.get_state()
TaskBegin(w) ==
    /\ coro[w] = "task"
    /\ coro' = [coro EXCEPT ![w] =
                   IF KeyIsRunning(wkey[w]) THEN "noop" ELSE "await"]
    /\ UNCHANGED <<mainVars, workerVars, envVars, sigVars, hist>>
    /\ UNCHANGED nonCmdVars

\* window.py:938-965  get_state returned: build worker and thread, register
\* the handle under the key, thread.start()
TaskResume(w) ==
    /\ coro[w] = "await"
    /\ running' = [running EXCEPT ![wkey[w]] = [run |-> w, last_line |-> ""]]
    /\ coro' = [coro EXCEPT ![w] = "started"]
    /\ UNCHANGED <<wkey, wtimeout, cancel_event, workerVars, envVars, sigVars,
                   hist>>
    /\ UNCHANGED nonCmdVars

\* window.py:924-926, 967-972  _on_quick_action_canceled -> _cancel_custom_action
Cancel(k) ==
    /\ KeyIsRunning(k)
    /\ cancel_event' = [cancel_event EXCEPT ![running[k].run] = TRUE]
    /\ UNCHANGED <<running, coro, wkey, wtimeout, workerVars, envVars, sigVars,
                   hist>>
    /\ UNCHANGED nonCmdVars

\* window.py:974-982  _on_action_output
OnActionOutput(w) ==
    /\ outQ[w]
    /\ outQ' = [outQ EXCEPT ![w] = FALSE]
    /\ running' = IF KeyIsRunning(wkey[w])
                  THEN [running EXCEPT ![wkey[w]].last_line = "out"]
                  ELSE running
    /\ UNCHANGED <<coro, wkey, wtimeout, cancel_event, workerVars, envVars,
                   errQ, finQ, hist>>
    /\ UNCHANGED nonCmdVars

\* window.py:984-992  _on_action_error
OnActionError(w) ==
    /\ errQ[w] /\ ~outQ[w]
    /\ errQ' = [errQ EXCEPT ![w] = FALSE]
    /\ running' = IF KeyIsRunning(wkey[w])
                  THEN [running EXCEPT ![wkey[w]].last_line = "err"]
                  ELSE running
    /\ UNCHANGED <<coro, wkey, wtimeout, cancel_event, workerVars, envVars,
                   outQ, finQ, hist>>
    /\ UNCHANGED nonCmdVars

\* window.py:994-1017  _on_action_finished
OnActionFinished(w) ==
    /\ finQ[w] # NoFin /\ ~outQ[w] /\ ~errQ[w]
    /\ finQ' = [finQ EXCEPT ![w] = NoFin]
    /\ running' = PopRunning(wkey[w])
    /\ hist' = [hist EXCEPT
           ![w].handled = @ + 1,
           ![w].fin = finQ[w],
           ![w].found = KeyIsRunning(wkey[w]),
           ![w].toasts = IF KeyIsRunning(wkey[w]) THEN 1 ELSE 0,
           ![w].toast = IF KeyIsRunning(wkey[w])
                        THEN Finished(running[wkey[w]].last_line, finQ[w][1],
                                      finQ[w][2], finQ[w][3])
                        ELSE NoToast]
    /\ UNCHANGED <<coro, wkey, wtimeout, cancel_event, workerVars, envVars,
                   outQ, errQ>>
    /\ UNCHANGED nonCmdVars

\* window.py:954-956  thread.quit, worker.deleteLater, thread.deleteLater;
\* a task that returned at window.py:936 is gone as well
Reap(w) ==
    /\ \/ coro[w] = "noop"
       \/ coro[w] = "done" /\ hist[w].handled = hist[w].finished
                           /\ ~outQ[w] /\ ~errQ[w]
    /\ coro' = [coro EXCEPT ![w] = "free"]
    /\ wkey' = [wkey EXCEPT ![w] = "k1"]
    /\ wtimeout' = [wtimeout EXCEPT ![w] = 0]
    /\ cancel_event' = [cancel_event EXCEPT ![w] = FALSE]
    /\ elapsed' = [elapsed EXCEPT ![w] = 0]
    /\ timed_out' = [timed_out EXCEPT ![w] = FALSE]
    /\ canceled' = [canceled EXCEPT ![w] = FALSE]
    /\ proc' = [proc EXCEPT ![w] = "none"]
    /\ exit_code' = [exit_code EXCEPT ![w] = 0]
    /\ out_avail' = [out_avail EXCEPT ![w] = FALSE]
    /\ hist' = [hist EXCEPT ![w] = NoHist]
    /\ UNCHANGED <<running, sigVars>>
    /\ UNCHANGED nonCmdVars

----------------------------------------------------------------------------
(* The child process and the clock *)

\* time passes while the loop polls
Tick(w) ==
    /\ InLoop(w) /\ wtimeout[w] > 0 /\ elapsed[w] < MaxElapsed
    /\ elapsed' = [elapsed EXCEPT ![w] = @ + 1]
    /\ hist' = [hist EXCEPT ![w].overdue_alive =
                   @ \/ (proc[w] = "running" /\ elapsed[w] + 1 > wtimeout[w])]
    /\ UNCHANGED <<mainVars, coro, timed_out, canceled, envVars, sigVars>>
    /\ UNCHANGED nonCmdVars

\* the child writes a line to its stdout
ProcOutput(w) ==
    /\ proc[w] = "running" /\ ~out_avail[w]
    /\ InLoop(w) \/ coro[w] = "wait"
    /\ out_avail' = [out_avail EXCEPT ![w] = TRUE]
    /\ UNCHANGED <<mainVars, coro, workerVars, proc, exit_code, sigVars, hist>>
    /\ UNCHANGED nonCmdVars

\* the child exits by itself, or on the SIGTERM it was sent
ProcExit(w) ==
    /\ proc[w] = "running" /\ InLoop(w)
    /\ \E c \in ExitCodes(w) :
        /\ proc' = [proc EXCEPT ![w] = "exited"]
        /\ exit_code' = [exit_code EXCEPT ![w] = c]
    /\ UNCHANGED <<mainVars, coro, workerVars, out_avail, sigVars, hist>>
    /\ UNCHANGED nonCmdVars

----------------------------------------------------------------------------
(* _CommandWorker.run, on the worker's thread *)

Emit(h, w) == [h EXCEPT ![w].finished = @ + 1]

\* window.py:96-113  the run slot is entered: start = monotonic(), Popen.
\* _run_custom_action connects no signal to this slot (thread.started is
\* not connected); its invocation is a step of the environment here, so
\* that what run does is checked for every invocation.
RunSlot(w) ==
    /\ coro[w] = "started"
    /\ \/ /\ proc' = [proc EXCEPT ![w] = "running"]
          /\ coro' = [coro EXCEPT ![w] = "loop"]
          /\ UNCHANGED <<sigVars, hist>>
       \/ \* Popen raised: error, finished(1, False, False), return
          /\ errQ' = [errQ EXCEPT ![w] = TRUE]
          /\ finQ' = [finQ EXCEPT ![w] = FinishedArgs(1, FALSE, FALSE)]
          /\ hist' = [Emit(hist, w) EXCEPT ![w].spawn_failed = TRUE,
                                           ![w].errored = TRUE,
                                           ![w].last_emitted = "err"]
          /\ coro' = [coro EXCEPT ![w] = AfterSpawnFailure]
          /\ UNCHANGED <<proc, outQ>>
    /\ UNCHANGED <<mainVars, workerVars, exit_code, out_avail>>
    /\ UNCHANGED nonCmdVars

\* window.py:118-126  top of the loop: the two stop conditions, each
\* followed by proc.terminate()
LoopTop(w) ==
    /\ coro[w] = "loop"
    /\ canceled' = [canceled EXCEPT ![w] = @ \/ cancel_event[w]]
    /\ timed_out' = [timed_out EXCEPT ![w] = @ \/ Overdue(w)]
    /\ hist' = [hist EXCEPT ![w].term = @ \/ TerminateCalled(w),
                            ![w].overdue_seen = @ \/ Overdue(w)]
    /\ coro' = [coro EXCEPT ![w] = "select"]
    /\ UNCHANGED <<mainVars, elapsed, envVars, sigVars>>
    /\ UNCHANGED nonCmdVars

\* window.py:128-134  select.select([fd], [], [], 0.2) and readline
Select(w) ==
    /\ coro[w] = "select"
    /\ \/ \* a line was read: emit it and continue
          /\ out_avail[w]
          /\ out_avail' = [out_avail EXCEPT ![w] = FALSE]
          /\ outQ' = [outQ EXCEPT ![w] = TRUE]
          /\ hist' = [hist EXCEPT ![w].printed = TRUE,
                                  ![w].last_emitted = "out"]
          /\ coro' = [coro EXCEPT ![w] = "loop"]
          /\ UNCHANGED errQ
       \/ \* readline raised (undecodable bytes): window.py:151-152
          /\ out_avail[w]
          /\ out_avail' = [out_avail EXCEPT ![w] = FALSE]
          /\ errQ' = [errQ EXCEPT ![w] = TRUE]
          /\ hist' = [hist EXCEPT ![w].errored = TRUE,
                                  ![w].last_emitted = "err"]
          /\ coro' = [coro EXCEPT ![w] = "finally"]
          /\ UNCHANGED outQ
       \/ \* the select timed out, or the stream is at end of file
          /\ ~out_avail[w]
          /\ coro' = [coro EXCEPT ![w] = "poll"]
          /\ UNCHANGED <<out_avail, outQ, errQ, hist>>
    /\ UNCHANGED <<mainVars, workerVars, proc, exit_code, finQ>>
    /\ UNCHANGED nonCmdVars

\* window.py:136-139  proc.poll(), then the test of the stop flags
Poll(w) ==
    /\ coro[w] = "poll"
    /\ coro' = [coro EXCEPT ![w] =
                   IF proc[w] = "exited" THEN "drain"
                   ELSE IF StopRequested(w) THEN "wait"
                   ELSE "loop"]
    /\ UNCHANGED <<mainVars, workerVars, envVars, sigVars, hist>>
    /\ UNCHANGED nonCmdVars

\* window.py:140-145  proc.wait(timeout=1); on expiry proc.kill(), proc.wait()
Wait(w) ==
    /\ coro[w] = "wait"
    /\ \E expired \in BOOLEAN :
        /\ expired => proc[w] = "running"
        /\ hist' = [hist EXCEPT ![w].waited = TRUE,
                                ![w].wait_expired = expired,
                                ![w].kill = KillOnExpiry(expired)]
        /\ IF proc[w] = "exited"
           THEN UNCHANGED <<proc, exit_code>>
           ELSE /\ proc' = [proc EXCEPT ![w] = "exited"]
                /\ \E c \in (IF KillOnExpiry(expired) THEN {SIGKILL}
                             ELSE ExitCodes(w)) :
                       exit_code' = [exit_code EXCEPT ![w] = c]
    /\ coro' = [coro EXCEPT ![w] = "drain"]
    /\ UNCHANGED <<mainVars, workerVars, out_avail, sigVars>>
    /\ UNCHANGED nonCmdVars

\* window.py:147-152  for line in stdout: emit what is left
Drain(w) ==
    /\ coro[w] = "drain"
    /\ \/ /\ out_avail[w]
          /\ outQ' = [outQ EXCEPT ![w] = TRUE]
          /\ hist' = [hist EXCEPT ![w].printed = TRUE,
                                  ![w].last_emitted = "out"]
          /\ UNCHANGED errQ
       \/ \* reading raised: window.py:151-152
          /\ out_avail[w]
          /\ errQ' = [errQ EXCEPT ![w] = TRUE]
          /\ hist' = [hist EXCEPT ![w].errored = TRUE,
                                  ![w].last_emitted = "err"]
          /\ UNCHANGED outQ
       \/ /\ ~out_avail[w]
          /\ UNCHANGED <<outQ, errQ, hist>>
    /\ out_avail' = [out_avail EXCEPT ![w] = FALSE]
    /\ coro' = [coro EXCEPT ![w] = "finally"]
    /\ UNCHANGED <<mainVars, workerVars, proc, exit_code, finQ>>
    /\ UNCHANGED nonCmdVars

\* window.py:153-160  finally: the exit code, then finished.emit
Finally(w) ==
    /\ coro[w] = "finally"
    /\ \/ \* proc.poll() gave the code
          /\ proc[w] = "exited"
          /\ finQ' = [finQ EXCEPT ![w] =
                         FinishedArgs(exit_code[w], timed_out[w], canceled[w])]
          /\ UNCHANGED <<proc, exit_code>>
       \/ \* still running: it exits within proc.wait(timeout=1)
          /\ proc[w] = "running"
          /\ \E c \in ExitCodes(w) :
              /\ proc' = [proc EXCEPT ![w] = "exited"]
              /\ exit_code' = [exit_code EXCEPT ![w] = c]
              /\ finQ' = [finQ EXCEPT ![w] =
                             FinishedArgs(c, timed_out[w], canceled[w])]
       \/ \* still running: the wait expires, exit_code = 1
          /\ proc[w] = "running"
          /\ finQ' = [finQ EXCEPT ![w] =
                         FinishedArgs(1, timed_out[w], canceled[w])]
          /\ UNCHANGED <<proc, exit_code>>
    /\ hist' = Emit(hist, w)
    /\ coro' = [coro EXCEPT ![w] = "done"]
    /\ UNCHANGED <<mainVars, workerVars, out_avail, outQ, errQ>>
    /\ UNCHANGED nonCmdVars

----------------------------------------------------------------------------
WorkerStep(w) ==
    \/ RunSlot(w)
    \/ LoopTop(w)
    \/ Select(w)
    \/ Poll(w)
    \/ Wait(w)
    \/ Drain(w)
    \/ Finally(w)

TaskStep(w) ==
    \/ TaskBegin(w)
    \/ TaskResume(w)

SignalStep(w) ==
    \/ OnActionOutput(w)
    \/ OnActionError(w)
    \/ OnActionFinished(w)
    \/ Reap(w)

EnvStep(w) ==
    \/ Tick(w)
    \/ ProcOutput(w)
    \/ ProcExit(w)

\* one execution at a time, any command
Next ==
    \/ \E k \in Keys, t \in Timeouts : SoloTrigger(k, t)
    \/ \E k \in Keys : Cancel(k)
    \/ \E w \in Runs : TaskStep(w)
    \/ \E w \in Runs : SignalStep(w)
    \/ \E w \in Runs : WorkerStep(w)
    \/ \E w \in Runs : EnvStep(w)

Spec == Init /\ [][Next]_vars

\* The worker thread runs whenever it can, and the main thread's event loop
\* resumes every task and delivers every queued signal; the child process
\* and the user are not constrained.
FairSpec ==
    /\ Spec
    /\ \A w \in Runs : WF_vars(WorkerStep(w))
    /\ \A w \in Runs : WF_vars(TaskStep(w))
    /\ \A w \in Runs : WF_vars(SignalStep(w))

\* overlapping triggers, of commands that print nothing and have no timeout
WindowNext ==
    \/ \E k \in Keys : Trigger(k, 0)
    \/ \E k \in Keys : Cancel(k)
    \/ \E w \in Runs : TaskStep(w)
    \/ \E w \in Runs : OnActionError(w)
    \/ \E w \in Runs : OnActionFinished(w)
    \/ \E w \in Runs : Reap(w)
    \/ \E w \in Runs : WorkerStep(w)
    \/ \E w \in Runs : ProcExit(w)

WindowSpec == Init /\ [][WindowNext]_vars

\* overlapping triggers, of commands without timeout; the command of the
\* first task prints
KeysNext ==
    \/ \E k \in Keys : Trigger(k, 0)
    \/ \E k \in Keys : Cancel(k)
    \/ \E w \in Runs : TaskStep(w)
    \/ \E w \in Runs : SignalStep(w)
    \/ \E w \in Runs : WorkerStep(w)
    \/ ProcOutput(1)
    \/ \E w \in Runs : ProcExit(w)

KeysSpec == Init /\ [][KeysNext]_vars

----------------------------------------------------------------------------
(* Claims about the command executor *)

(* ------------------------------------------------------------------------
   Lyrics resolver of DeckWindow (window.py:632-733).  Everything here runs
   on the one event loop: _maybe_update_lyrics is called from the music poll
   and runs to its end; a _fetch_lyrics task suspends once, in
   await fetch_synced, and its continuation runs to its end.
   ------------------------------------------------------------------------ *)

\* window.py:657-677  the cached lyrics of a fingerprint, None when absent
CachedLyricsForTrack(key) == lyrics_cache[key]

\* Task.cancel() as called by window.py:691: a suspended task gets
\* CancelledError at its next step and never resumes normally
CancelTaskIgnored(ft, t) == ft
CancelTask(ft, t) ==
    IF ft[t].st = "pending" THEN [ft EXCEPT ![t].st = "cancelled"] ELSE ft

\* window.py:689-693  _cancel_lyrics_task: cancel the task (if not done) and
\* drop the reference
CancelLyricsTask(ft) ==
    IF lyrics_task # 0 THEN CancelTask(ft, lyrics_task) ELSE ft

\* window.py:642-643  the early return of _maybe_update_lyrics
SameTrackNever(key) == FALSE
SameTrack(key) == key = lyrics_track_key

\* window.py:640-655  _maybe_update_lyrics with the fingerprint key of the
\* polled state (NoKey when _lyrics_key returns None)
MaybeUpdateLyrics(key) ==
    /\ ~SameTrack(key)
    /\ lyrics_track_key' = key
    /\ lyr_hist' = NoWrite
    /\ lookups' = (IF key # lyrics_track_key THEN 0 ELSE lookups)
                   + (IF key # NoKey /\ CachedLyricsForTrack(key) = NoLyrics
                      THEN 1 ELSE 0)
    /\ UNCHANGED lyrics_cache
    /\ IF key = NoKey
       THEN /\ held_lyrics' = NoLyrics
            /\ shown_lyrics' = NoLyrics
            /\ ftask' = CancelLyricsTask(ftask)
            /\ lyrics_task' = 0
       ELSE IF CachedLyricsForTrack(key) # NoLyrics
       THEN /\ held_lyrics' = CachedLyricsForTrack(key)
            /\ shown_lyrics' = CachedLyricsForTrack(key)
            /\ ftask' = CancelLyricsTask(ftask)
            /\ lyrics_task' = 0
       ELSE \E t \in FetchIds :
            /\ ftask[t].st = "free"
            /\ held_lyrics' = NoLyrics
            /\ shown_lyrics' = NoLyrics
            /\ ftask' = [CancelLyricsTask(ftask) EXCEPT
                            ![t] = [st |-> "pending", key |-> key]]
            /\ lyrics_task' = t
    /\ UNCHANGED nonLyrVars

\* window.py:696-704  what the awaited fetch_synced leaves in lyrics
FetchOutcomes == {"found", "not_found", "no_lyrics", "exception"}
FetchedLyrics(key, outcome) == IF outcome = "found" THEN key ELSE NoLyrics

\* window.py:711-713  the finally clause of _fetch_lyrics run by task t: the
\* reference is dropped only when it is this task
TaskFinallyClears(t) == 0
TaskFinally(t) == IF lyrics_task = t THEN 0 ELSE lyrics_task

\* window.py:695-722  the continuation of _fetch_lyrics when fetch_synced
\* has returned or raised: the finally clause, the key test, the writes.
\* The not-found message of line 719 is replaced by set_synced_lyrics on
\* line 721 within this same continuation.
FetchDone(t, outcome) ==
    /\ ftask[t].st = "pending"
    /\ ftask' = [ftask EXCEPT ![t] = FreeTask]
    /\ lyrics_task' = TaskFinally(t)
    /\ UNCHANGED lookups
    /\ IF ftask[t].key # lyrics_track_key
       THEN UNCHANGED <<held_lyrics, shown_lyrics, lyrics_cache, lyr_hist>>
       ELSE /\ held_lyrics' = FetchedLyrics(ftask[t].key, outcome)
            /\ shown_lyrics' = FetchedLyrics(ftask[t].key, outcome)
            /\ lyrics_cache' =
                   IF outcome = "found"
                   THEN [lyrics_cache EXCEPT ![ftask[t].key] =
                            FetchedLyrics(ftask[t].key, outcome)]
                   ELSE lyrics_cache
            /\ lyr_hist' = [writer |-> t, key |-> ftask[t].key,
                            current |-> (lyrics_task = t)]
    /\ UNCHANGED lyrics_track_key
    /\ UNCHANGED nonLyrVars

\* window.py:699-700,705-708  a cancelled task is resumed with
\* CancelledError: it returns at once; it is no longer self._lyrics_task
FetchCancelled(t) ==
    /\ ftask[t].st = "cancelled"
    /\ ftask' = [ftask EXCEPT ![t] = FreeTask]
    /\ lyrics_task' = TaskFinally(t)
    /\ UNCHANGED lookups
    /\ lyr_hist' = NoWrite
    /\ UNCHANGED <<lyrics_track_key, held_lyrics, shown_lyrics, lyrics_cache>>
    /\ UNCHANGED nonLyrVars

LyricsNext ==
    \/ \E key \in Fingerprints \cup {NoKey} : MaybeUpdateLyrics(key)
    \/ \E t \in FetchIds, o \in FetchOutcomes : FetchDone(t, o)
    \/ \E t \in FetchIds : FetchCancelled(t)

LyricsSpec == Init /\ [][LyricsNext]_vars

(* ------------------------------------------------------------------------
   LrclibClient.fetch_synced and _request (LRCLIB.py:133-180): one call,
   its requests made one after the other in worker threads.
   ------------------------------------------------------------------------ *)

\* what the server (or the network) can answer to one request
Responses == {"http_404", "http_error", "network_error", "bad_json",
              "json_not_object", "no_synced_lyrics", "no_timed_line",
              "synced_lyrics"}

\* LRCLIB.py:159-180  _request: 404 raises LyricsNotFoundError; other HTTP
\* and transport errors and undecodable bodies return None; a body that is
\* JSON but not an object makes payload.get raise AttributeError, which
\* nothing in _request catches; an object without synced lyrics, or with
\* lyrics holding no timed line, gives None
RequestOutcome(resp) ==
    CASE resp = "http_404" -> "not_found"
      [] resp = "json_not_object" -> "raised"
      [] resp = "synced_lyrics" -> "lyrics"
      [] OTHER -> "none"

\* LRCLIB.py:152-153  if lyrics is not None: return lyrics
ReturnsAtLyricsNever(outcome) == FALSE
ReturnsAtLyrics(outcome) == outcome = "lyrics"

\* LRCLIB.py:136-145  the call: the early return on an empty title or
\* artist or a non-positive duration, else the candidate list is built
\* (n entries, possibly none) and the loop is entered
FetchSynced(args_ok, n) ==
    /\ fs_pc = "idle"
    /\ IF args_ok
       THEN /\ fs_pc' = "loop"
            /\ fs_n' = n
            /\ fs_i' = 1
            /\ fs_result' = NoResult
       ELSE /\ fs_pc' = "done"
            /\ fs_result' = [kind |-> "none", from |-> 0]
            /\ UNCHANGED <<fs_n, fs_i>>
    /\ UNCHANGED <<saw_not_found, saw_other_failure, fs_requested, fs_outcomes>>
    /\ UNCHANGED nonFetchVars

\* LRCLIB.py:146-148  the loop takes the next query and awaits its request
Request ==
    /\ fs_pc = "loop"
    /\ fs_i <= fs_n
    /\ fs_pc' = "await"
    /\ fs_requested' = Append(fs_requested, fs_i)
    /\ UNCHANGED <<fs_n, fs_i, saw_not_found, saw_other_failure, fs_result,
                   fs_outcomes>>
    /\ UNCHANGED nonFetchVars

\* LRCLIB.py:148-154  the request finishes and the loop body goes on
Response(resp) ==
    /\ fs_pc = "await"
    /\ fs_outcomes' = Append(fs_outcomes, RequestOutcome(resp))
    /\ LET outcome == RequestOutcome(resp) IN
       IF outcome = "not_found"
       THEN /\ saw_not_found' = TRUE
            /\ fs_pc' = "loop"
            /\ fs_i' = fs_i + 1
            /\ UNCHANGED <<saw_other_failure, fs_result>>
       ELSE IF outcome = "raised"
       THEN /\ fs_pc' = "done"
            /\ fs_result' = [kind |-> "raised_other", from |-> fs_i]
            /\ UNCHANGED <<fs_i, saw_not_found, saw_other_failure>>
       ELSE IF ReturnsAtLyrics(outcome)
       THEN /\ fs_pc' = "done"
            /\ fs_result' = [kind |-> "lyrics", from |-> fs_i]
            /\ UNCHANGED <<fs_i, saw_not_found, saw_other_failure>>
       ELSE /\ saw_other_failure' = TRUE
            /\ fs_pc' = "loop"
            /\ fs_i' = fs_i + 1
            /\ UNCHANGED <<saw_not_found, fs_result>>
    /\ UNCHANGED <<fs_n, fs_requested>>
    /\ UNCHANGED nonFetchVars

\* LRCLIB.py:155-157  the list is exhausted
EndLoop ==
    /\ fs_pc = "loop"
    /\ fs_i > fs_n
    /\ fs_pc' = "done"
    /\ fs_result' = IF saw_not_found /\ ~saw_other_failure
                    THEN [kind |-> "raised_not_found", from |-> 0]
                    ELSE [kind |-> "none", from |-> 0]
    /\ UNCHANGED <<fs_n, fs_i, saw_not_found, saw_other_failure, fs_requested,
                   fs_outcomes>>
    /\ UNCHANGED nonFetchVars

FetchNext ==
    \/ \E args_ok \in BOOLEAN, n \in 0..MaxQueries : FetchSynced(args_ok, n)
    \/ Request
    \/ \E resp \in Responses : Response(resp)
    \/ EndLoop

FetchSpec == Init /\ [][FetchNext]_vars

(* ------------------------------------------------------------------------
   _build_query_candidates and the cleaning functions (LRCLIB.py:15-107)
   ------------------------------------------------------------------------ *)

RECURSIVE LStrip(_)
LStrip(s) == IF s # <<>> /\ Head(s) = " " THEN LStrip(Tail(s)) ELSE s

RECURSIVE RStrip(_)
RStrip(s) ==
    IF s # <<>> /\ s[Len(s)] = " " THEN RStrip(SubSeq(s, 1, Len(s) - 1)) ELSE s

\* str.strip()
Strip(s) == RStrip(LStrip(s))

\* where the white space starting at i ends: the first position from i on
\* that holds no white space, Len(s) + 1 when there is none
RunEnd(s, i) ==
    IF \E j \in i..Len(s) : s[j] # " "
    THEN CHOOSE j \in i..Len(s) :
             s[j] # " " /\ \A k \in i..(j - 1) : s[k] = " "
    ELSE Len(s) + 1

\* LRCLIB.py:17,49  _BRACKET_RE.sub(" ", text): each leftmost match of
\* white space, an opening bracket, the shortest text up to a closing
\* bracket, white space, becomes one blank
RECURSIVE BracketSub(_, _)
BracketSub(s, i) ==
    IF i > Len(s) THEN <<>>
    ELSE LET j == RunEnd(s, i) IN
         IF /\ j <= Len(s)
            /\ s[j] = "("
            /\ \E k \in (j + 1)..Len(s) : s[k] = ")"
         THEN LET k == CHOOSE k \in (j + 1)..Len(s) :
                           s[k] = ")" /\ \A l \in (j + 1)..(k - 1) : s[l] # ")"
              IN <<" ">> \o BracketSub(s, RunEnd(s, k + 1))
         ELSE <<s[i]>> \o BracketSub(s, i + 1)

\* LRCLIB.py:16,18  _FEAT_RE.sub("", text) and _DASH_RE.sub("", text): the
\* text is cut at the leftmost white space that is followed by the mark,
\* white space and at least one more character
MarkSub(s, mark) ==
    LET starts == {i \in 1..Len(s) :
                      /\ s[i] = " "
                      /\ LET j == RunEnd(s, i) IN
                             /\ j + 2 <= Len(s)
                             /\ s[j] = mark
                             /\ s[j + 1] = " "}
    IN IF starts = {} THEN s
       ELSE SubSeq(s, 1, (CHOOSE i \in starts : \A k \in starts : i <= k) - 1)

RECURSIVE Squeeze(_)
Squeeze(s) ==
    IF Len(s) < 2 THEN s
    ELSE IF s[1] = " " /\ s[2] = " " THEN Squeeze(Tail(s))
    ELSE <<s[1]>> \o Squeeze(Tail(s))

\* " ".join(text.split()).strip()
JoinSplit(s) == Strip(Squeeze(s))

\* LRCLIB.py:48-51  _clean_title
clean_title(text) == JoinSplit(MarkSub(BracketSub(text, 1), "-"))

\* LRCLIB.py:54-56  _clean_artist
clean_artist(text) == JoinSplit(MarkSub(text, "f"))

\* LRCLIB.py:59-64  _primary_artist: the text before the first separator
primary_artist(text) ==
    LET t == Strip(text)
        seps == {i \in 1..Len(t) : t[i] = ","}
    IN IF seps = {} THEN t
       ELSE Strip(SubSeq(t, 1, (CHOOSE i \in seps : \A k \in seps : i <= k) - 1))

\* round(duration_ms / 1000) of LRCLIB.py:83: Python rounds a half to the
\* even neighbour
RoundSeconds(ms) ==
    LET q == ms \div 1000
        r == ms % 1000
    IN IF r < 500 THEN q
       ELSE IF r > 500 THEN q + 1
       ELSE IF q % 2 = 0 THEN q ELSE q + 1

\* LRCLIB.py:83  duration_s = max(1, int(round(duration_ms / 1000)))
DurationS(ms) == IF RoundSeconds(ms) < 1 THEN 1 ELSE RoundSeconds(ms)

\* LRCLIB.py:96-99  the test against seen, the keys of the entries so far
SeenNever(key, out) == FALSE
Seen(key, out) == \E j \in 1..Len(out) : out[j] = key

\* LRCLIB.py:92-106  the loop over combos
RECURSIVE Collect(_, _, _, _)
Collect(combos, i, d, out) ==
    IF i > Len(combos) THEN out
    ELSE LET key == [track_name |-> combos[i][1], artist_name |-> combos[i][2],
                     album_name |-> combos[i][3], duration |-> d]
         IN IF combos[i][1] = <<>> \/ combos[i][2] = <<>>
            THEN Collect(combos, i + 1, d, out)
            ELSE IF Seen(key, out)
            THEN Collect(combos, i + 1, d, out)
            ELSE Collect(combos, i + 1, d, Append(out, key))

\* LRCLIB.py:67-107  _build_query_candidates
build_query_candidates(track_name, artist_name, album_name, duration_ms) ==
    LET track_raw == Strip(track_name)
        artist_raw == Strip(artist_name)
        album_raw == Strip(album_name)
        track_clean == clean_title(track_raw)
        artist_clean == clean_artist(artist_raw)
        artist_primary ==
            primary_artist(IF artist_clean # <<>> THEN artist_clean
                           ELSE artist_raw)
        album_clean == IF album_raw # <<>> THEN clean_title(album_raw) ELSE <<>>
        combos == << <<track_raw, artist_raw, album_raw>>,
                     <<track_raw, artist_raw, <<>> >>,
                     <<track_clean, artist_clean, album_raw>>,
                     <<track_clean, artist_clean, <<>> >>,
                     <<track_clean, artist_primary, <<>> >>,
                     <<track_raw, artist_primary, <<>> >>,
                     <<track_clean, artist_clean, album_clean>> >>
    IN Collect(combos, 1, DurationS(duration_ms), <<>>)

\* one call of _build_query_candidates
BuildQueryCandidates(in) ==
    /\ q_pc = "idle"
    /\ q_pc' = "done"
    /\ q_in' = in
    /\ q_out' = build_query_candidates(in.track_name, in.artist_name,
                                       in.album_name, in.duration_ms)
    /\ UNCHANGED nonCandVars

\* the calls drawn: every title up to MaxLen with a few artists, every
\* artist up to MaxLen with a few titles, every duration with a few of both
\* (arguments are drawn only where a call can be made)
WhenIdle(S) == IF q_pc = "idle" THEN S ELSE {}

CandNext ==
    \/ \E k \in WhenIdle(0..MaxLen) :
           \E t \in [1..k -> TitleChars], a \in FewArtists, b \in Albums :
               BuildQueryCandidates(Args(t, a, b, 2500))
    \/ \E k \in WhenIdle(0..MaxLen) :
           \E t \in FewTitles, a \in [1..k -> ArtistChars], b \in Albums :
               BuildQueryCandidates(Args(t, a, b, 2500))
    \/ \E t \in WhenIdle(FewTitles), a \in FewArtists, d \in Durations :
           BuildQueryCandidates(Args(t, a, <<>>, d))

CandSpec == Init /\ [][CandNext]_vars

(* ------------------------------------------------------------------------
   SyncedLyrics.line_at (LRCLIB.py:31-41)
   ------------------------------------------------------------------------ *)

\* the lists the program holds are sorted by at_ms (LRCLIB.py:123)
SortedByAt(lines) ==
    \A i \in 1..(Len(lines) - 1) : lines[i].at_ms <= lines[i + 1].at_ms

\* LRCLIB.py:38-39  if position_ms < line.at_ms: break
ScanStopsNever(position_ms, line) == FALSE
ScanStops(position_ms, line) == position_ms < line.at_ms

\* LRCLIB.py:37-40  the linear scan
RECURSIVE Scan(_, _, _, _)
Scan(lines, i, position_ms, last) ==
    IF i > Len(lines) THEN last
    ELSE IF ScanStops(position_ms, lines[i]) THEN last
    ELSE Scan(lines, i + 1, position_ms, lines[i].text)

\* LRCLIB.py:31-41  line_at
line_at(lines, position_ms) ==
    IF lines = <<>> \/ position_ms < lines[1].at_ms THEN ""
    ELSE Scan(lines, 1, position_ms, "")

\* one call of line_at
LineAt(lines, position_ms) ==
    /\ la_pc = "idle"
    /\ la_pc' = "done"
    /\ la_lines' = lines
    /\ la_pos' = position_ms
    /\ la_ret' = line_at(lines, position_ms)
    /\ UNCHANGED nonLineVars

LineNext ==
    \E n \in IfIdle(la_pc, 0..MaxLines) :
        \E lines \in [1..n -> LyricLines], position_ms \in Positions :
            SortedByAt(lines) /\ LineAt(lines, position_ms)

LineSpec == Init /\ [][LineNext]_vars

(* ------------------------------------------------------------------------
   _parse_synced_lyrics (LRCLIB.py:15, 110-124)
   ------------------------------------------------------------------------ *)

\* the stamp [mm:ss.fff] that _TS_RE (LRCLIB.py:15) reads back as at_ms
EncodeStamp(at_ms) ==
    LET ms == at_ms % 1000 IN
    Ts(at_ms \div 60000, (at_ms \div 1000) % 60,
       <<ms \div 100, (ms \div 10) % 10, ms % 10>>)

\* one LRC line: the stamp, then the text
EncodeLine(line) ==
    <<EncodeStamp(line.at_ms)>> \o [i \in 1..Len(line.text) |-> Ch(line.text[i])]

EncodeLrc(lines) == [i \in 1..Len(lines) |-> EncodeLine(lines[i])]

\* LRCLIB.py:113  _TS_RE.findall(raw)
RECURSIVE Stamps(_)
Stamps(raw) ==
    IF raw = <<>> THEN <<>>
    ELSE IF Head(raw).k = "ts" THEN <<Head(raw)>> \o Stamps(Tail(raw))
    ELSE Stamps(Tail(raw))

\* LRCLIB.py:114  _TS_RE.sub("", raw).strip()
RECURSIVE WithoutStamps(_)
WithoutStamps(raw) ==
    IF raw = <<>> THEN <<>>
    ELSE IF Head(raw).k = "ch" THEN <<Head(raw).c>> \o WithoutStamps(Tail(raw))
    ELSE WithoutStamps(Tail(raw))

\* LRCLIB.py:120  int((frac or "0").ljust(3, "0"))
Millis(frac) ==
    LET d(i) == IF i <= Len(frac) THEN frac[i] ELSE 0
    IN 100 * d(1) + 10 * d(2) + d(3)

\* LRCLIB.py:118-121
StampMs(st) == (st.m * 60 + st.s) * 1000 + Millis(st.frac)

\* LRCLIB.py:112-122  the lines of one raw line, one per stamp
RawLines(raw) ==
    LET text == Strip(WithoutStamps(raw))
        stamps == Stamps(raw)
    IN IF stamps = <<>> \/ text = <<>> THEN <<>>
       ELSE [i \in 1..Len(stamps) |-> [at_ms |-> StampMs(stamps[i]), text |-> text]]

RECURSIVE AllLines(_)
AllLines(lrc_text) ==
    IF lrc_text = <<>> THEN <<>>
    ELSE RawLines(Head(lrc_text)) \o AllLines(Tail(lrc_text))

\* list.sort(key=at_ms) of LRCLIB.py:123: stable, equal keys keep their order
RECURSIVE InsertByAt(_, _)
InsertByAt(sorted, line) ==
    IF sorted = <<>> THEN <<line>>
    ELSE IF sorted[Len(sorted)].at_ms <= line.at_ms THEN Append(sorted, line)
    ELSE Append(InsertByAt(SubSeq(sorted, 1, Len(sorted) - 1), line),
                sorted[Len(sorted)])

RECURSIVE SortByAt(_, _)
SortByAt(lines, sorted) ==
    IF lines = <<>> THEN sorted
    ELSE SortByAt(Tail(lines), InsertByAt(sorted, Head(lines)))

\* LRCLIB.py:110-124  _parse_synced_lyrics
parse_synced_lyrics(lrc_text) ==
    LET lines == SortByAt(AllLines(lrc_text), <<>>)
    IN IF lines # <<>> THEN Parsed(lines) ELSE NoParse

\* one call of _parse_synced_lyrics, on the encoding of lines
ParseSyncedLyrics(lines) ==
    /\ lp_pc = "idle"
    /\ lp_pc' = "done"
    /\ lp_in' = lines
    /\ lp_text' = EncodeLrc(lines)
    /\ lp_out' = parse_synced_lyrics(EncodeLrc(lines))
    /\ UNCHANGED nonParseVars

\* the inputs drawn: every ordering of every set of up to MaxLrcLines lines
Distinct(lines) ==
    \A i, j \in 1..Len(lines) : i # j => lines[i] # lines[j]

ParseNext ==
    \E n \in IfIdle(lp_pc, 0..MaxLrcLines) :
        \E lines \in [1..n -> LrcPairs] :
            Distinct(lines) /\ ParseSyncedLyrics(lines)

ParseSpec == Init /\ [][ParseNext]_vars

(* ------------------------------------------------------------------------
   _coerce_lyrics_cache (settings.py:162-182)
   ------------------------------------------------------------------------ *)

\* isinstance(x, int): bool is a subclass of int
IsInstanceInt(x) == x.ty \in {"int", "bool"}
\* isinstance(x, str)
IsInstanceStr(x) == x.ty = "str"

\* settings.py:170-177  the entry passes the three tests
EntryKept(entry) ==
    /\ entry.dict
    /\ IsInstanceInt(entry.at_ms) /\ ~(entry.at_ms.v < 0)
    /\ IsInstanceStr(entry.text)

\* settings.py:168-178  the entries of one list, rebuilt from at_ms and text
CoerceEntries(lines) == SelectSeq(lines, EntryKept)

\* settings.py:165-180  one key of the mapping
CoerceKey(key, value) ==
    IF key \notin StrKeys \/ value.kind # "list" THEN Absent
    ELSE IF CoerceEntries(value.items) = <<>> THEN Absent
    ELSE ListOf(CoerceEntries(value.items))

\* settings.py:162-182  _coerce_lyrics_cache
coerce_lyrics_cache(val) ==
    IF ~val.dict THEN EmptyCache
    ELSE Dict([k \in CacheKeys |-> CoerceKey(k, val.map[k])])

\* one call of _coerce_lyrics_cache
CoerceLyricsCache(val) ==
    /\ cc_pc = "idle"
    /\ cc_pc' = "done"
    /\ cc_in' = val
    /\ cc_out' = coerce_lyrics_cache(val)
    /\ UNCHANGED nonCoerceVars

\* the values drawn for the key that is not a str
FewValues == {Absent, NotAList,
              ListOf(<<[dict |-> TRUE, at_ms |-> Val("int", 2),
                        text |-> Val("str", "a")]>>)}

CoerceNext ==
    \/ \E n \in IfIdle(cc_pc, 0..MaxEntries) :
           \E lines \in [1..n -> CacheEntries], other \in FewValues :
               CoerceLyricsCache(Dict("k" :> ListOf(lines) @@ "123" :> other))
    \/ \E v \in IfIdle(cc_pc, {Absent, NotAList}), other \in FewValues :
           CoerceLyricsCache(Dict("k" :> v @@ "123" :> other))
    \/ \E other \in IfIdle(cc_pc, FewValues) :
           CoerceLyricsCache(NoDict("k" :> other @@ "123" :> Absent))

CoerceSpec == Init /\ [][CoerceNext]_vars

(* ------------------------------------------------------------------------
   The lyrics cache under the operations on the settings (window.py:797-820,
   pages/settings.py:914-934).  Every handler that changes self.settings
   ends in save_settings, so the settings file holds the cache of
   self.settings after each step.
   ------------------------------------------------------------------------ *)

\* pages/settings.py:917-932  the Settings the page builds in _emit_change:
\* lyrics_cache is not among the arguments, so it is the default, empty
PageSettingsCache(cache) == EmptyLyricsCache

\* window.py:928-932  replace(self.settings, enable_gpu_stats=...)
ReplacedSettingsCache(cache) == cache

\* pages/settings.py:914-934 and window.py:797-801  a control of the
\* settings page changes: _emit_change, then _on_settings_changed
SettingsPageChanged ==
    /\ lyrics_cache' = PageSettingsCache(lyrics_cache)
    /\ last_op' = "page_change"
    /\ UNCHANGED <<lyrics_track_key, held_lyrics, shown_lyrics, lyrics_task,
                   ftask, lyr_hist, lookups>>
    /\ UNCHANGED nonCacheVars

\* window.py:928-932, 797-801  the GPU quick action: _on_settings_changed
\* with a copy of self.settings
ToggleGpuStats ==
    /\ lyrics_cache' = ReplacedSettingsCache(lyrics_cache)
    /\ last_op' = "toggle"
    /\ UNCHANGED <<lyrics_track_key, held_lyrics, shown_lyrics, lyrics_task,
                   ftask, lyr_hist, lookups>>
    /\ UNCHANGED nonCacheVars

\* window.py:818-820  _on_clear_cache_requested
ClearCacheRequested ==
    /\ lyrics_cache' = EmptyLyricsCache
    /\ last_op' = "clear"
    /\ UNCHANGED <<lyrics_track_key, held_lyrics, shown_lyrics, lyrics_task,
                   ftask, lyr_hist, lookups>>
    /\ UNCHANGED nonCacheVars

\* window.py:883-890  a playback transfer: replace(self.settings,
\* spotify_device_id=...) keeps the lyrics cache (the device ids are the
\* subject of XferSpec)
TransferPlayback ==
    /\ last_op' = "transfer"
    /\ UNCHANGED lyrVars
    /\ UNCHANGED nonCacheVars

\* window.py:822-826, 329-332  restart: a new DeckWindow whose settings are
\* loaded from the file; the entries _cache_lyrics wrote pass the load
Restart ==
    /\ lyrics_track_key' = NoKey
    /\ held_lyrics' = NoLyrics
    /\ shown_lyrics' = NoLyrics
    /\ lyrics_task' = 0
    /\ ftask' = [t \in FetchIds |-> FreeTask]
    /\ lyr_hist' = NoWrite
    /\ lookups' = 0
    /\ last_op' = "restart"
    /\ UNCHANGED lyrics_cache
    /\ UNCHANGED nonCacheVars

CacheNext ==
    \/ \E key \in Fingerprints \cup {NoKey} : MaybeUpdateLyrics(key)
    \/ \E t \in FetchIds, o \in FetchOutcomes : FetchDone(t, o)
    \/ \E t \in FetchIds : FetchCancelled(t)
    \/ SettingsPageChanged
    \/ ToggleGpuStats
    \/ ClearCacheRequested
    \/ TransferPlayback
    \/ Restart

CacheSpec == Init /\ [][CacheNext]_vars

(* ------------------------------------------------------------------------
   MediaManager (media.py:58-125).  Facade calls are coroutines on one
   event loop; each suspends where it awaits the provider or the lock.
   ------------------------------------------------------------------------ *)

\* media.py:68-70  _provider: both keys are in self._providers
Provider(source) == source

\* media.py:74-81  what get_state returns: the provider's state relabelled
\* with the source re-read, an Error state with the MediaError's message,
\* or a default MediaState (utils.py:57-58: status "Stopped", message "")
StateResult(outcome) ==
    CASE outcome = "ok" ->
             [kind |-> "state", status |-> "Playing", message |-> "",
              source |-> ""]
      [] outcome = "media_error" ->
             [kind |-> "state", status |-> "Error", message |-> "provider message",
              source |-> ""]
      [] OTHER ->
             [kind |-> "state", status |-> "Stopped", message |-> "",
              source |-> ""]

\* media.py:76, 79, 81  the source of the state returned is what the
\* settings accessor gives when the provider has returned or raised
Relabelled(state) == [state EXCEPT !.source = media_source]

\* media.py:116-125  what _run_action returns: None, the MediaError's
\* user_message, or the generic message
ActionResultRaises(outcome) ==
    IF outcome = "ok" THEN [kind |-> "null", status |-> "", message |-> "",
                            source |-> ""]
    ELSE [kind |-> "raised", status |-> "", message |-> "", source |-> ""]
ActionResult(outcome) ==
    CASE outcome = "ok" ->
             [kind |-> "null", status |-> "", message |-> "",
              source |-> ""]
      [] outcome = "media_error" ->
             [kind |-> "error", status |-> "", message |-> "provider message",
              source |-> ""]
      [] OTHER ->
             [kind |-> "error", status |-> "", message |-> "Media control failed",
              source |-> ""]

\* media.py:119  async with self._lock: the lock is released however the
\* body ends
ReleasedOnSuccessOnly(outcome) == outcome = "ok"
Released(outcome) == TRUE

\* the user switches the media source in the settings
SwitchSource(source) ==
    /\ source # media_source
    /\ media_source' = source
    /\ UNCHANGED <<media_lock, mcall>>
    /\ UNCHANGED nonMediaVars

\* media.py:72-75  get_state: the provider is resolved and its get_state
\* is awaited
GetState(c) ==
    /\ mcall[c].pc = "idle"
    /\ mcall' = [mcall EXCEPT ![c] =
                     [op |-> "get_state", pc |-> "in_provider",
                      provider |-> Provider(media_source),
                      named |-> Provider(media_source),
                      outcome |-> "none", result |-> NoRes]]
    /\ UNCHANGED <<media_source, media_lock>>
    /\ UNCHANGED nonMediaVars

\* media.py:75-81  the provider's get_state has returned or raised
GetStateDone(c, outcome) ==
    /\ mcall[c].op = "get_state"
    /\ mcall[c].pc = "in_provider"
    /\ mcall' = [mcall EXCEPT ![c].pc = "done", ![c].outcome = outcome,
                              ![c].result = Relabelled(StateResult(outcome))]
    /\ UNCHANGED <<media_source, media_lock>>
    /\ UNCHANGED nonMediaVars

\* media.py:116-120  a mutating call (play_pause, next, previous, seek,
\* set_volume, transfer_playback): the provider is resolved, then the lock
\* is taken at once when it is free and nobody waits for it, else the call
\* waits
RunAction(c) ==
    /\ mcall[c].pc = "idle"
    /\ LET free == media_lock = 0
                    /\ \A d \in CallIds : mcall[d].pc # "wait_lock"
       IN /\ mcall' = [mcall EXCEPT ![c] =
                           [op |-> "control",
                            pc |-> IF free THEN "in_provider" ELSE "wait_lock",
                            provider |-> Provider(media_source),
                            named |-> Provider(media_source),
                            outcome |-> "none", result |-> NoRes]]
          /\ media_lock' = IF free THEN c ELSE media_lock
    /\ UNCHANGED media_source
    /\ UNCHANGED nonMediaVars

\* media.py:119-120  a waiting call gets the lock and calls the provider
\* it resolved before waiting
LockAcquired(c) ==
    /\ mcall[c].pc = "wait_lock"
    /\ media_lock = 0
    /\ media_lock' = c
    /\ mcall' = [mcall EXCEPT ![c].pc = "in_provider",
                              ![c].named = Provider(media_source)]
    /\ UNCHANGED media_source
    /\ UNCHANGED nonMediaVars

\* media.py:119-125  the provider call has returned or raised
RunActionDone(c, outcome) ==
    /\ mcall[c].op = "control"
    /\ mcall[c].pc = "in_provider"
    /\ media_lock' = IF Released(outcome) THEN 0 ELSE media_lock
    /\ mcall' = [mcall EXCEPT ![c].pc = "done", ![c].outcome = outcome,
                              ![c].result = ActionResult(outcome)]
    /\ UNCHANGED media_source
    /\ UNCHANGED nonMediaVars

\* the caller has taken the result
CallReturned(c) ==
    /\ mcall[c].pc = "done"
    /\ mcall' = [mcall EXCEPT ![c] = NoCall]
    /\ UNCHANGED <<media_source, media_lock>>
    /\ UNCHANGED nonMediaVars

MediaNext ==
    \/ \E source \in Sources : SwitchSource(source)
    \/ \E c \in CallIds : GetState(c)
    \/ \E c \in CallIds, o \in ProviderOutcomes : GetStateDone(c, o)
    \/ \E c \in CallIds : RunAction(c)
    \/ \E c \in CallIds : LockAcquired(c)
    \/ \E c \in CallIds, o \in ProviderOutcomes : RunActionDone(c, o)
    \/ \E c \in CallIds : CallReturned(c)

MediaSpec == Init /\ [][MediaNext]_vars

(* ------------------------------------------------------------------------
   MprisService (mpris.py:30-142).  now_playing calls are coroutines on
   one event loop, serialised by self._lock; each suspends at its D-Bus
   calls.
   ------------------------------------------------------------------------ *)

\* mpris.py:85-92  the scan: index of the first name whose status read
\* gives "Playing", reads that raise being skipped; 0 when there is none
RECURSIVE ScanFrom(_, _, _)
ScanFrom(names, statuses, i) ==
    IF i > Len(names) THEN 0
    ELSE IF statuses[names[i]] = "Playing" THEN i
    ELSE ScanFrom(names, statuses, i + 1)

\* mpris.py:85-92  whether a status read of the scan raised
ScanErrored(names, statuses) ==
    LET stop == ScanFrom(names, statuses, 1)
        last == IF stop = 0 THEN Len(names) ELSE stop
    IN \E i \in 1..last : statuses[names[i]] = "raise"

\* mpris.py:82  self._preferred in names
PreferredPresentNever(pref, names) == FALSE
PreferredPresent(pref, names) == \E i \in 1..Len(names) : names[i] = pref

\* mpris.py:79-94  _pick_player: the name returned ("" for None), the new
\* self._preferred and whether the scan ran
pick_player(pref, names, statuses) ==
    IF names = <<>> THEN
        [name |-> NoPlayer, preferred |-> pref, scanned |-> FALSE]
    ELSE IF PreferredPresent(pref, names) THEN
        [name |-> pref, preferred |-> pref, scanned |-> FALSE]
    ELSE LET i == ScanFrom(names, statuses, 1)
             n == IF i # 0 THEN names[i] ELSE names[1]
         IN [name |-> n, preferred |-> n, scanned |-> TRUE]

\* mpris.py:140-142  except Exception: return MediaState()
OnExceptionPropagates == [IdleState EXCEPT !.raised = TRUE]
OnException == IdleState

\* mpris.py:96-97  now_playing is called: the lock is taken at once when
\* it is free and nobody waits for it, else the call waits
NowPlaying(p) ==
    /\ poll[p].pc = "idle"
    /\ LET free == mpris_lock = 0
                    /\ \A q \in PollIds : poll[q].pc # "wait_lock"
       IN /\ poll' = [poll EXCEPT ![p].pc =
                          IF free THEN "locked" ELSE "wait_lock",
                                   ![p].waited = ~free]
          /\ mpris_lock' = IF free THEN p ELSE mpris_lock
    /\ UNCHANGED <<preferred, last_chosen>>
    /\ UNCHANGED nonMprisVars

\* mpris.py:97  a waiting call gets the lock
PollLockAcquired(p) ==
    /\ poll[p].pc = "wait_lock"
    /\ mpris_lock = 0
    /\ mpris_lock' = p
    /\ poll' = [poll EXCEPT ![p].pc = "locked"]
    /\ UNCHANGED <<preferred, last_chosen>>
    /\ UNCHANGED nonMprisVars

\* mpris.py:99  list_players returns the names
ListPlayers(p, names) ==
    /\ poll[p].pc = "locked"
    /\ poll' = [poll EXCEPT ![p].pc = "listed", ![p].names = names]
    /\ UNCHANGED <<preferred, mpris_lock, last_chosen>>
    /\ UNCHANGED nonMprisVars

\* mpris.py:99, 140-142  list_players raises: the idle state is returned
\* and the lock released
ListPlayersFailed(p) ==
    /\ poll[p].pc = "locked"
    /\ poll' = [poll EXCEPT ![p].pc = "done", ![p].errors = {"list"},
                            ![p].result = OnException]
    /\ mpris_lock' = 0
    /\ UNCHANGED <<preferred, last_chosen>>
    /\ UNCHANGED nonMprisVars

\* mpris.py:100-102  _pick_player runs; with no name the idle state is
\* returned and the lock released
PickPlayer(p, statuses) ==
    /\ poll[p].pc = "listed"
    /\ LET r == pick_player(preferred, poll[p].names, statuses)
           errs == IF r.scanned /\ ScanErrored(poll[p].names, statuses)
                   THEN {"scan"} ELSE {}
       IN /\ preferred' = r.preferred
          /\ last_chosen' = IF r.name = NoPlayer THEN last_chosen ELSE r.name
          /\ IF r.name = NoPlayer
             THEN /\ poll' = [poll EXCEPT ![p].pc = "done",
                                          ![p].statuses = statuses,
                                          ![p].chosen_before = last_chosen,
                                          ![p].picked = NoPlayer,
                                          ![p].errors = errs,
                                          ![p].result = IdleState]
                  /\ mpris_lock' = 0
             ELSE /\ poll' = [poll EXCEPT ![p].pc = "picked",
                                          ![p].statuses = statuses,
                                          ![p].chosen_before = last_chosen,
                                          ![p].picked = r.name,
                                          ![p].errors = errs]
                  /\ UNCHANGED mpris_lock
    /\ UNCHANGED nonMprisVars

\* mpris.py:104-139  the four property reads succeed and the state of the
\* picked player is returned; the lock is released
ReadProps(p, can_seek) ==
    /\ poll[p].pc = "picked"
    /\ poll' = [poll EXCEPT ![p].pc = "done",
                            ![p].result = MprisState("Unknown Title",
                                              poll[p].picked, TRUE, can_seek)]
    /\ mpris_lock' = 0
    /\ UNCHANGED <<preferred, last_chosen>>
    /\ UNCHANGED nonMprisVars

\* mpris.py:104-123, 140-142  a property read or a conversion raises, for
\* instance because the player has left the bus: the idle state is
\* returned and the lock released
ReadPropsFailed(p) ==
    /\ poll[p].pc = "picked"
    /\ poll' = [poll EXCEPT ![p].pc = "done",
                            ![p].errors = poll[p].errors \cup {"read"},
                            ![p].result = OnException]
    /\ mpris_lock' = 0
    /\ UNCHANGED <<preferred, last_chosen>>
    /\ UNCHANGED nonMprisVars

\* the caller has taken the state
PollReturned(p) ==
    /\ poll[p].pc = "done"
    /\ poll' = [poll EXCEPT ![p] = NoPoll]
    /\ UNCHANGED <<preferred, mpris_lock, last_chosen>>
    /\ UNCHANGED nonMprisVars

MprisNext ==
    \/ \E p \in PollIds : NowPlaying(p)
    \/ \E p \in PollIds : PollLockAcquired(p)
    \/ \E p \in PollIds, names \in PlayerLists : ListPlayers(p, names)
    \/ \E p \in PollIds : ListPlayersFailed(p)
    \/ \E p \in PollIds, statuses \in Readings : PickPlayer(p, statuses)
    \/ \E p \in PollIds, can_seek \in BOOLEAN : ReadProps(p, can_seek)
    \/ \E p \in PollIds : ReadPropsFailed(p)
    \/ \E p \in PollIds : PollReturned(p)

MprisSpec == Init /\ [][MprisNext]_vars

(* ------------------------------------------------------------------------
   SpotifyProvider (spotify_provider.py:89-295, 338-355, 482-491): the
   token check _get_client and the API calls of the operations.  The
   operations are coroutines on one event loop; the spotipy calls run in
   threads and are awaited.
   ------------------------------------------------------------------------ *)

\* spotify_provider.py:482-491  _translate_error: the MediaError made from
\* a SpotifyException
translate_error(exc) ==
    LET msg == IF exc.text = "" THEN "Spotify error" ELSE exc.text
    IN IF exc.status = 403 /\ msg = "premium" THEN "premium_required"
       ELSE IF exc.status = 404 /\ msg = "no active device"
            THEN "no_active_device"
       ELSE "generic"

\* spotify_provider.py:276  token and not auth.is_token_expired(token)
TokenUsableAlways(token) == TRUE
TokenUsable(token) == token = "valid"

\* spotify_provider.py:284  token and token.get("refresh_token")
RefreshableAny(token) == token # "none"
Refreshable(token) == token = "expired_rt"

\* an operation ends, and holds no manager and no client any more
Ended(rec, stage, result) ==
    [rec EXCEPT !.pc = "done", !.stage = stage, !.result = result,
                !.early = FALSE, !.auth = "none", !.client = "none"]

\* spotify_provider.py:90, 103-111, 190-191, 206-208, 340-344  the
\* operation has its client: ensure_ready returns, the others issue their
\* next API call
AfterClient(rec) ==
    IF rec.kind = "ensure_ready"
    THEN Ended(rec, "ok", SpResult("returned", ""))
    ELSE [rec EXCEPT !.calls = @ + 1,
                     !.pc = IF rec.kind = "play_pause" THEN "read"
                            ELSE IF rec.check = 2 THEN "art_api"
                            ELSE "api"]

\* spotify_provider.py:273, 437  self._auth or self._build_auth_manager():
\* the stored manager, else one built from the configured credentials,
\* which _build_auth_manager stores
AuthOrBuilt == IF sp_auth THEN sp_built.auth ELSE "current"

\* spotify_provider.py:277-281, 290-293  self._auth = auth, and the client
\* of the operation: at line 278 the stored one unless there is none, at
\* line 291 always a new one
AuthStored(rec, fresh_client) ==
    [auth |-> rec.auth,
     client |-> IF fresh_client \/ sp_built.client = "none"
                THEN rec.auth ELSE sp_built.client]

\* spotify_provider.py:272-274, 424-426  _get_client from the lock to the
\* awaited get_cached_token: without an auth manager and without
\* credentials _build_auth_manager raises; with the lock taken the call
\* waits
BeginCheck(o, rec) ==
    LET free == sp_lock = 0
                /\ \A q \in OpIds \ {o} : sp_op[q].pc # "wait_lock"
    IN IF ~free
       THEN /\ sp_op' = [sp_op EXCEPT ![o] = [rec EXCEPT !.pc = "wait_lock"]]
            /\ UNCHANGED <<sp_lock, sp_auth, sp_built>>
       ELSE IF ~sp_auth /\ ~sp_creds
       THEN /\ sp_op' = [sp_op EXCEPT ![o] =
                   Ended([rec EXCEPT !.no_token =
                                        sp_token \in {"none", "expired_nort"}],
                         "creds",
                         SpResult("media_error", "credentials_missing"))]
            /\ sp_lock' = 0
            /\ UNCHANGED <<sp_auth, sp_built>>
       ELSE /\ sp_op' = [sp_op EXCEPT ![o] =
                   [rec EXCEPT !.pc = "token", !.auth = AuthOrBuilt]]
            /\ sp_lock' = o
            /\ sp_auth' = TRUE
            /\ sp_built' = [sp_built EXCEPT !.auth = AuthOrBuilt]

\* spotify_provider.py:89-90, 102-103, 189-190, 205-206  an operation is
\* called and starts its token check
SpCall(o, kind) ==
    /\ sp_op[o].pc = "idle"
    /\ BeginCheck(o, [NoOp EXCEPT !.kind = kind, !.check = 1])
    /\ UNCHANGED <<sp_creds, sp_token>>
    /\ UNCHANGED nonSpVars

\* spotify_provider.py:272  a waiting token check gets the lock
SpLockAcquired(o) ==
    /\ sp_op[o].pc = "wait_lock"
    /\ sp_lock = 0
    /\ BeginCheck(o, sp_op[o])
    /\ UNCHANGED <<sp_creds, sp_token>>
    /\ UNCHANGED nonSpVars

\* spotify_provider.py:274-295  get_cached_token has returned: an unexpired
\* token gives the client, an expired one with a refresh token starts the
\* refresh, anything else raises "Spotify is not signed in"
TokenRead(o) ==
    /\ sp_op[o].pc = "token"
    /\ LET rec == [sp_op[o] EXCEPT
                      !.seen = sp_token, !.refreshed = 0,
                      !.no_token = sp_token \in {"none", "expired_nort"}]
       IN IF TokenUsable(sp_token)
          THEN /\ sp_built' = AuthStored(rec, FALSE)
               /\ sp_auth' = TRUE
               /\ sp_op' = [sp_op EXCEPT ![o] =
                      AfterClient([rec EXCEPT !.client =
                                      AuthStored(rec, FALSE).client])]
               /\ sp_lock' = 0
          ELSE IF Refreshable(sp_token)
          THEN /\ sp_op' = [sp_op EXCEPT ![o] =
                      [rec EXCEPT !.pc = "refresh", !.refreshed = 1,
                                  !.late_refresh = rec.calls > 0]]
               /\ UNCHANGED <<sp_lock, sp_auth, sp_built>>
          ELSE /\ sp_op' = [sp_op EXCEPT ![o] =
                      Ended(rec, "token",
                            SpResult("media_error", "not_signed_in"))]
               /\ sp_lock' = 0
               /\ UNCHANGED <<sp_auth, sp_built>>
    /\ UNCHANGED <<sp_creds, sp_token>>
    /\ UNCHANGED nonSpVars

\* spotify_provider.py:285-295  refresh_access_token has ended; a token it
\* returns is the one in the cache file from then on
RefreshDone(o, r) ==
    /\ sp_op[o].pc = "refresh"
    /\ sp_lock' = 0
    /\ CASE r = "token" ->
              /\ sp_built' = AuthStored(sp_op[o], TRUE)
              /\ sp_auth' = TRUE
              /\ sp_op' = [sp_op EXCEPT ![o] =
                     AfterClient([sp_op[o] EXCEPT !.client =
                                     AuthStored(sp_op[o], TRUE).client])]
              /\ sp_token' = "valid"
         [] r = "nothing" ->
              /\ sp_op' = [sp_op EXCEPT ![o] =
                     Ended([sp_op[o] EXCEPT !.no_token = TRUE], "refresh",
                           SpResult("media_error", "not_signed_in"))]
              /\ UNCHANGED <<sp_token, sp_auth, sp_built>>
         [] OTHER ->
              /\ sp_op' = [sp_op EXCEPT ![o] =
                     Ended(sp_op[o], "refresh", SpResult("raised", ""))]
              /\ UNCHANGED <<sp_token, sp_auth, sp_built>>
    /\ UNCHANGED sp_creds
    /\ UNCHANGED nonSpVars

\* spotify_provider.py:107-119, 191-203, 207-210, 340-349  an API call has
\* ended.  The state read of play_pause is outside the try block; the
\* other calls translate a SpotifyException, and _fetch_playing_art_url
\* swallows it; get_state without images in the item goes on to
\* _fetch_playing_art_url, which checks the token again
ApiDone(o, out) ==
    /\ sp_op[o].pc \in {"read", "api", "art_api"}
    /\ out.kind = "ok_noart"
          => sp_op[o].kind = "get_state" /\ sp_op[o].pc = "api"
    /\ LET rec == sp_op[o]
           failed == [rec EXCEPT !.failure = out]
       IN CASE out.kind = "ok_noart" ->
                   BeginCheck(o, [rec EXCEPT !.check = 2, !.seen = "unread",
                                             !.refreshed = 0])
            [] out.kind = "ok" /\ rec.pc = "read" ->
                   /\ sp_op' = [sp_op EXCEPT ![o] =
                          [rec EXCEPT !.pc = "api", !.calls = @ + 1]]
                   /\ UNCHANGED <<sp_lock, sp_auth, sp_built>>
            [] out.kind = "ok" /\ rec.pc # "read" ->
                   /\ sp_op' = [sp_op EXCEPT ![o] =
                          Ended(rec, "ok", SpResult("returned", ""))]
                   /\ UNCHANGED <<sp_lock, sp_auth, sp_built>>
            [] out.kind = "spotify_exception" /\ rec.pc = "api" ->
                   /\ sp_op' = [sp_op EXCEPT ![o] =
                          Ended(failed, "api",
                                SpResult("media_error", translate_error(out)))]
                   /\ UNCHANGED <<sp_lock, sp_auth, sp_built>>
            [] out.kind = "spotify_exception" /\ rec.pc = "art_api" ->
                   /\ sp_op' = [sp_op EXCEPT ![o] =
                          Ended(rec, "ok", SpResult("returned", ""))]
                   /\ UNCHANGED <<sp_lock, sp_auth, sp_built>>
            [] OTHER ->
                   /\ sp_op' = [sp_op EXCEPT ![o] =
                          Ended(failed, rec.pc, SpResult("raised", ""))]
                   /\ UNCHANGED <<sp_lock, sp_auth, sp_built>>
    /\ UNCHANGED <<sp_creds, sp_token>>
    /\ UNCHANGED nonSpVars

\* the caller has taken the result
SpReturned(o) ==
    /\ sp_op[o].pc = "done"
    /\ sp_op' = [sp_op EXCEPT ![o] = NoOp]
    /\ UNCHANGED <<sp_creds, sp_auth, sp_built, sp_token, sp_lock>>
    /\ UNCHANGED nonSpVars

\* the token file changes outside the operations: the token expires, the
\* user signs in (spotify_provider.py:98) or the file is removed
TokenChanges(token) ==
    /\ token # sp_token
    /\ sp_token' = token
    /\ UNCHANGED <<sp_creds, sp_auth, sp_built, sp_lock, sp_op>>
    /\ UNCHANGED nonSpVars

\* spotify_provider.py:87  update_config forgets the cached conversion
ConfigArtDataKept == last_art_data_url
ConfigArtData == NoUrl

\* what was built from the credentials in force is, after update_config,
\* built from the previous ones
Outdated(from) == IF from = "none" THEN "none" ELSE "previous"

\* spotify_provider.py:68-87, window.py:563-571  update_config with or
\* without credentials, which replace the ones in force, and with the
\* device id of the settings; the operations and sign-ins under way
\* keep the manager and the client they hold; the operations under way
\* and the polls that are converting a cover meanwhile are marked
UpdateConfig(creds) ==
    /\ sp_creds' = creds
    /\ sp_auth' = FALSE
    /\ sp_built' = NothingBuilt
    /\ sp_op' = [o \in OpIds |->
                    IF sp_op[o].pc \in {"idle", "done"} THEN sp_op[o]
                    ELSE [sp_op[o] EXCEPT !.early = TRUE,
                                          !.auth = Outdated(@),
                                          !.client = Outdated(@)]]
    /\ attempt' = [a \in AttemptIds |->
                      [attempt[a] EXCEPT !.auth = Outdated(@)]]
    /\ UNCHANGED auth_port
    /\ last_art_http_url' = NoUrl
    /\ last_art_data_url' = ConfigArtData
    /\ apoll' = [q \in ArtPollIds |->
                    IF apoll[q].pc \in {"wait_lock", "download"}
                    THEN [apoll[q] EXCEPT !.reset = TRUE]
                    ELSE apoll[q]]
    /\ sp_device_id' = saved_device_id
    /\ UNCHANGED <<sp_token, sp_lock>>
    /\ UNCHANGED <<art_lock, art_prev_url>>
    /\ UNCHANGED <<saved_device_id, xfer, xfer_hist>>
    /\ UNCHANGED nonConfigVars

SpotifyNext ==
    \/ \E o \in OpIds, kind \in OpKinds : SpCall(o, kind)
    \/ \E o \in OpIds : SpLockAcquired(o)
    \/ \E o \in OpIds : TokenRead(o)
    \/ \E o \in OpIds, r \in RefreshOutcomes : RefreshDone(o, r)
    \/ \E o \in OpIds, out \in ApiOutcomes : ApiDone(o, out)
    \/ \E o \in OpIds : SpReturned(o)
    \/ \E token \in Tokens : TokenChanges(token)
    \/ \E creds \in BOOLEAN : UpdateConfig(creds)

SpotifySpec == Init /\ [][SpotifyNext]_vars

(* ------------------------------------------------------------------------
   The artwork cache of SpotifyProvider (spotify_provider.py:145-170,
   357-422): the part of get_state after the playback read, with the
   configuration left alone.
   ------------------------------------------------------------------------ *)

\* spotify_provider.py:421-422  the data URL a successful download gives
DataUrl(url) == IF url = "u" THEN "data:u" ELSE "data:v"

\* spotify_provider.py:369, 374  the cached conversion can be used
CacheHit(url) == url = last_art_http_url /\ last_art_data_url # NoUrl

\* spotify_provider.py:158-187  get_state stores the URL and the
\* conversion and returns
ArtFinish(p, rec, data, others) ==
    /\ last_art_http_url' = rec.url
    /\ last_art_data_url' = data
    /\ art_prev_url' = rec.url
    /\ apoll' = [others EXCEPT ![p] = [rec EXCEPT !.pc = "done", !.data = data]]

\* spotify_provider.py:372-377  _to_data_url at the lock: with the lock
\* free the check is repeated and the download starts, else the poll waits
ArtAcquire(p, rec, others) ==
    IF art_lock # 0 \/ \E q \in ArtPollIds \ {p} : apoll[q].pc = "wait_lock"
    THEN /\ apoll' = [others EXCEPT ![p] = [rec EXCEPT !.pc = "wait_lock"]]
         /\ UNCHANGED <<last_art_http_url, last_art_data_url, art_lock,
                        art_prev_url>>
    ELSE /\ apoll' = [others EXCEPT ![p] =
                [rec EXCEPT !.pc = "download", !.downloads = @ + 1]]
         /\ art_lock' = p
         /\ UNCHANGED <<last_art_http_url, last_art_data_url, art_prev_url>>

\* spotify_provider.py:145-170, 357-372  a poll has resolved the artwork
\* URL of the playing item and converts it
ArtPoll(p, url) ==
    /\ apoll[p].pc = "idle"
    /\ LET busy == \E q \in ArtPollIds : apoll[q].pc \in {"wait_lock", "download"}
           rec == [NoArtPoll EXCEPT !.url = url, !.prev_url = art_prev_url,
                                    !.overlap = busy]
           others == [q \in ArtPollIds |->
                         IF apoll[q].pc \in {"wait_lock", "download"}
                         THEN [apoll[q] EXCEPT !.overlap = TRUE]
                         ELSE apoll[q]]
       IN IF url = NoUrl \/ url = "data:d" \/ CacheHit(url)
          THEN /\ ArtFinish(p, rec,
                              IF url = NoUrl THEN NoUrl
                              ELSE IF url = "data:d" THEN url
                              ELSE last_art_data_url,
                              others)
               /\ UNCHANGED art_lock
          ELSE ArtAcquire(p, rec, others)
    /\ UNCHANGED nonArtVars

\* spotify_provider.py:372-377  a waiting poll gets the lock and repeats
\* the check
ArtLockAcquired(p) ==
    /\ apoll[p].pc = "wait_lock"
    /\ art_lock = 0
    /\ IF CacheHit(apoll[p].url)
       THEN /\ ArtFinish(p, apoll[p], last_art_data_url, apoll)
            /\ UNCHANGED art_lock
       ELSE /\ apoll' = [apoll EXCEPT ![p].pc = "download",
                                      ![p].downloads = @ + 1]
            /\ art_lock' = p
            /\ UNCHANGED <<last_art_http_url, last_art_data_url, art_prev_url>>
    /\ UNCHANGED nonArtVars

\* spotify_provider.py:377-381, 158-187  the download has ended, with a
\* data URL or with None; the result is cached, the lock released and
\* get_state returns
DownloadDone(p, ok) ==
    /\ apoll[p].pc = "download"
    /\ ArtFinish(p, apoll[p],
                 IF ok THEN DataUrl(apoll[p].url) ELSE NoUrl, apoll)
    /\ art_lock' = 0
    /\ UNCHANGED nonArtVars

\* the caller has taken the state
ArtReturned(p) ==
    /\ apoll[p].pc = "done"
    /\ apoll' = [apoll EXCEPT ![p] = NoArtPoll]
    /\ UNCHANGED <<last_art_http_url, last_art_data_url, art_lock, art_prev_url>>
    /\ UNCHANGED nonArtVars

ArtNext ==
    \/ \E p \in ArtPollIds, url \in ArtUrls : ArtPoll(p, url)
    \/ \E p \in ArtPollIds : ArtLockAcquired(p)
    \/ \E p \in ArtPollIds, ok \in BOOLEAN : DownloadDone(p, ok)
    \/ \E p \in ArtPollIds : ArtReturned(p)

ArtSpec == Init /\ [][ArtNext]_vars

\* the artwork cache with the configuration changing between the steps
ArtConfigNext ==
    \/ \E p \in ArtPollIds, url \in ArtUrls : ArtPoll(p, url)
    \/ \E p \in ArtPollIds : ArtLockAcquired(p)
    \/ \E p \in ArtPollIds, ok \in BOOLEAN : DownloadDone(p, ok)
    \/ \E p \in ArtPollIds : ArtReturned(p)
    \/ \E creds \in BOOLEAN : UpdateConfig(creds)

ArtConfigSpec == Init /\ [][ArtConfigNext]_vars

(* ------------------------------------------------------------------------
   SpotifyProvider.authenticate (spotify_provider.py:92-100, 424-480).
   The listener serves in its own thread; the coroutine waits for the
   first request or for the deadline.
   ------------------------------------------------------------------------ *)

\* an attempt ends
AuthEnded(a, listener, result) ==
    attempt' = [attempt EXCEPT ![a].pc = "done", ![a].listener = listener,
                               ![a].result = result]

\* spotify_provider.py:93-95, 424-439, 463-470  authenticate up to the
\* wait: the auth manager is built (MediaError without credentials), the
\* URL made, the listener bound to the port (MediaError when it is taken)
\* and started
Authenticate(a) ==
    /\ attempt[a].pc = "idle"
    /\ IF ~sp_creds
       THEN /\ AuthEnded(a, "none", "credentials_missing")
            /\ UNCHANGED <<auth_port, sp_auth, sp_built>>
       ELSE IF auth_port # 0
       THEN /\ AuthEnded(a, "none", "listener_failed")
            /\ sp_auth' = TRUE
            /\ sp_built' = [sp_built EXCEPT !.auth = "current"]
            /\ UNCHANGED auth_port
       ELSE /\ attempt' = [attempt EXCEPT ![a].pc = "waiting",
                                          ![a].listener = "serving",
                                          ![a].auth = "current"]
            /\ auth_port' = a
            /\ sp_auth' = TRUE
            /\ sp_built' = [sp_built EXCEPT !.auth = "current"]
    /\ UNCHANGED <<sp_creds, sp_token, sp_lock, sp_op>>
    /\ UNCHANGED nonSignInVars

\* spotify_provider.py:449-461  do_GET: a request of any path sets
\* result.code and result.state and puts the result in the queue; the
\* listener keeps serving until it is shut down
Callback(a, req) ==
    /\ attempt[a].listener = "serving"
    /\ attempt[a].requests < MaxRequests
    /\ attempt' = [attempt EXCEPT ![a].request = req,
                                  ![a].requests = @ + 1]
    /\ UNCHANGED auth_port
    /\ UNCHANGED nonAuthVars

\* spotify_provider.py:471-480, 96-98  the wait ends, with the queued
\* result or at the deadline; the listener is shut down; without a code
\* authenticate raises "canceled", at the deadline "timed out", else the
\* exchange of the code starts
CaptureDone(a) ==
    /\ attempt[a].pc = "waiting"
    /\ auth_port' = 0
    /\ IF attempt[a].requests = 0
       THEN AuthEnded(a, "shut_down", "timed_out")
       ELSE IF ~attempt[a].request.code
       THEN AuthEnded(a, "shut_down", "canceled")
       ELSE attempt' = [attempt EXCEPT ![a].pc = "exchange",
                                       ![a].listener = "shut_down"]
    /\ UNCHANGED nonAuthVars

\* spotify_provider.py:98-100  get_access_token has ended: with the tokens,
\* which are cached, or with the library's exception
ExchangeDone(a, ok) ==
    /\ attempt[a].pc = "exchange"
    /\ UNCHANGED auth_port
    /\ IF ok
       THEN /\ AuthEnded(a, "shut_down", "signed_in")
            /\ sp_token' = "valid"
            /\ sp_auth' = TRUE
            /\ sp_built' = [auth |-> attempt[a].auth,
                            client |-> attempt[a].auth]
       ELSE /\ AuthEnded(a, "shut_down", "raised")
            /\ UNCHANGED <<sp_token, sp_auth, sp_built>>
    /\ UNCHANGED <<sp_creds, sp_lock, sp_op>>
    /\ UNCHANGED nonSignInVars

\* window.py:837-849  the caller has taken the outcome
AuthReturned(a) ==
    /\ attempt[a].pc = "done"
    /\ attempt' = [attempt EXCEPT ![a] = NoAttempt]
    /\ UNCHANGED auth_port
    /\ UNCHANGED nonAuthVars

AuthNext ==
    \/ \E a \in AttemptIds : Authenticate(a)
    \/ \E a \in AttemptIds, req \in AuthRequests : Callback(a, req)
    \/ \E a \in AttemptIds : CaptureDone(a)
    \/ \E a \in AttemptIds, ok \in BOOLEAN : ExchangeDone(a, ok)
    \/ \E a \in AttemptIds : AuthReturned(a)
    \/ \E creds \in BOOLEAN : UpdateConfig(creds)

AuthSpec == Init /\ [][AuthNext]_vars

(* ------------------------------------------------------------------------
   DeckWindow._format_custom_command (window.py:1029-1051): str.format_map
   over a dict that answers missing keys with "".
   ------------------------------------------------------------------------ *)

\* window.py:1044-1046  _SafeDict.__missing__
MissingKept == <<"a">>
Missing == <<>>

\* window.py:1031-1046  the lookup of a field name in ctx
Field(name, title) == IF name = <<"T">> THEN title ELSE Missing

\* index of the first brace at or after i, 0 when there is none
RECURSIVE NextBrace(_, _)
NextBrace(t, i) ==
    IF i > Len(t) THEN 0
    ELSE IF t[i] \in Braces THEN i
    ELSE NextBrace(t, i + 1)

FormatOk(out) == [ok |-> TRUE, out |-> out]
FormatError == [ok |-> FALSE, out |-> <<>>]
Prepend(s, r) == IF r.ok THEN FormatOk(s \o r.out) ELSE r

\* window.py:1049  template.format_map from position i: a doubled brace
\* gives one brace, {name} the looked-up value; a single closing brace, a
\* field without closing brace, a brace inside a field name and the empty
\* (positional) field raise ValueError
RECURSIVE FormatFrom(_, _, _)
FormatFrom(t, i, title) ==
    IF i > Len(t) THEN FormatOk(<<>>)
    ELSE IF t[i] \in Braces /\ i < Len(t) /\ t[i + 1] = t[i]
    THEN Prepend(<<t[i]>>, FormatFrom(t, i + 2, title))
    ELSE IF t[i] = "}" THEN FormatError
    ELSE IF t[i] = "{"
    THEN LET j == NextBrace(t, i + 1)
         IN IF j = 0 \/ j = i + 1 THEN FormatError
            ELSE IF t[j] = "{" THEN FormatError
            ELSE Prepend(Field(SubSeq(t, i + 1, j - 1), title),
                         FormatFrom(t, j + 1, title))
    ELSE Prepend(<<t[i]>>, FormatFrom(t, i + 1, title))

\* window.py:1048-1051  try: return template.format_map(...) except
\* Exception: return template
format_custom_command(template, title) ==
    LET r == FormatFrom(template, 1, title)
    IN IF r.ok THEN r.out ELSE template

\* one call of _format_custom_command
FormatCustomCommand(template, title) ==
    /\ fm_pc = "idle"
    /\ fm_pc' = "done"
    /\ fm_template' = template
    /\ fm_title' = title
    /\ fm_out' = format_custom_command(template, title)
    /\ UNCHANGED nonFmtVars

FmtNext ==
    \E n \in IfIdle(fm_pc, 0..MaxTemplate) :
        \E template \in [1..n -> TemplateSymbols], title \in TitleValues :
            FormatCustomCommand(template, title)

FmtSpec == Init /\ [][FmtNext]_vars

(* ------------------------------------------------------------------------
   filter_quick_action_keys (quick_actions.py:84-106)
   ------------------------------------------------------------------------ *)

\* quick_actions.py:91-95  the keys of the custom actions, empty keys left out
custom_keys_none(custom_actions) == {}
custom_keys(custom_actions) ==
    {custom_actions[i].key :
        i \in {j \in DOMAIN custom_actions : custom_actions[j].key # ""}}

\* quick_actions.py:98-103  the loop over the keys from position i
RECURSIVE FilterFrom(_, _, _, _)
FilterFrom(keys, i, valid_keys, result) ==
    IF i > Len(keys) THEN result
    ELSE IF keys[i].ty # "str" THEN FilterFrom(keys, i + 1, valid_keys, result)
    ELSE IF /\ keys[i].v \in valid_keys
            /\ \A n \in DOMAIN result : result[n] # keys[i].v
    THEN FilterFrom(keys, i + 1, valid_keys, Append(result, keys[i].v))
    ELSE FilterFrom(keys, i + 1, valid_keys, result)

\* quick_actions.py:84-106  filter_quick_action_keys; keys is a list or None
filter_quick_action_keys(keys, custom_actions) ==
    LET valid_keys == VALID_ACTION_KEYS \cup custom_keys(custom_actions)
        result == IF keys.kind = "list"
                  THEN FilterFrom(keys.items, 1, valid_keys, <<>>)
                  ELSE <<>>
    IN IF result = <<>> THEN DEFAULT_QUICK_ACTION_KEYS ELSE result

\* one call of filter_quick_action_keys
FilterQuickActionKeys(keys, custom_actions) ==
    /\ qa_pc = "idle"
    /\ qa_pc' = "done"
    /\ qa_keys' = keys
    /\ qa_custom' = custom_actions
    /\ qa_out' = filter_quick_action_keys(keys, custom_actions)
    /\ UNCHANGED nonQaVars

QaNext ==
    \/ \E n \in IfIdle(qa_pc, 0..MaxKeys) :
           \E items \in [1..n -> KeyItems], custom_actions \in CustomLists :
               FilterQuickActionKeys(ListOf(items), custom_actions)
    \/ \E custom_actions \in IfIdle(qa_pc, CustomLists) :
           FilterQuickActionKeys(Absent, custom_actions)

QaSpec == Init /\ [][QaNext]_vars

(* ------------------------------------------------------------------------
   load_settings, save_settings and reset_settings (settings.py:66-232)
   ------------------------------------------------------------------------ *)

\* str.lower over the texts drawn
Lower(s) == IF s = "Spotify" THEN "spotify" ELSE s

\* settings.py:66-69  _coerce_bool
coerce_bool(val, default) == IF val.ty = "bool" THEN val.v = 1 ELSE default

\* settings.py:72-77  _coerce_int: int(val) raises for None and for a text
\* that spells no integer, and cuts the fraction of a float
coerce_int(val, default, lo, hi) ==
    IF val.ty \in {"int", "str", "float", "bool"}
    THEN IF val.v < lo THEN lo ELSE IF val.v > hi THEN hi ELSE val.v
    ELSE default

\* settings.py:80-83  _coerce_theme
coerce_theme_default(val) == DEFAULT_THEME_KEY
coerce_theme(val) ==
    IF val.ty = "str" /\ val.v \in THEMES THEN val.v ELSE DEFAULT_THEME_KEY

\* settings.py:86-89  _coerce_media_source
coerce_media_source(val) ==
    IF val.ty = "str" /\ Lower(val.v) \in {"mpris", "spotify"}
    THEN Lower(val.v)
    ELSE "mpris"

\* settings.py:92-97  _coerce_quick_actions
coerce_quick_actions(val, custom_actions) ==
    IF val.kind = "list"
    THEN filter_quick_action_keys(val, custom_actions)
    ELSE filter_quick_action_keys(Absent, custom_actions)

\* settings.py:105-130  the loop of _coerce_custom_actions from position i
RECURSIVE CoerceActionsFrom(_, _, _)
CoerceActionsFrom(val, i, actions) ==
    IF i > Len(val) THEN actions
    ELSE LET entry == val[i]
             NonEmptyStr(x) == x.ty = "str" /\ x.v # ""
         IN IF /\ entry.dict
               /\ NonEmptyStr(entry.key)
               /\ NonEmptyStr(entry.title)
               /\ NonEmptyStr(entry.command)
               /\ \A n \in DOMAIN actions : actions[n].key # entry.key.v
            THEN CoerceActionsFrom(val, i + 1,
                     Append(actions,
                            [key |-> entry.key.v,
                             title |-> entry.title.v,
                             command |-> entry.command.v,
                             timeout_ms |->
                                 coerce_int(entry.timeout_ms,
                                            DEFAULT_CUSTOM_ACTION_TIMEOUT_MS,
                                            500, 300000)]))
            ELSE CoerceActionsFrom(val, i + 1, actions)

\* settings.py:100-131  _coerce_custom_actions
coerce_custom_actions(val) ==
    IF val.kind # "list" THEN <<>> ELSE CoerceActionsFrom(val.items, 1, <<>>)

\* settings.py:134-137  _coerce_optional_str
coerce_optional_str(val) == IF val.ty = "str" THEN val ELSE None

\* x or "" of an optional str
OrEmpty(x) == IF x.ty = "str" THEN x.v ELSE ""

InSeq(x, s) == \E n \in DOMAIN s : s[n] = x

\* settings.py:156-158  the pages that are not in ordered yet, appended
RECURSIVE AppendMissing(_, _, _)
AppendMissing(pages, i, ordered) ==
    IF i > Len(pages) THEN ordered
    ELSE IF InSeq(pages[i], ordered) THEN AppendMissing(pages, i + 1, ordered)
    ELSE AppendMissing(pages, i + 1, Append(ordered, pages[i]))

\* settings.py:145-159  _coerce_enabled_pages
coerce_enabled_pages(val) ==
    LET IsPage(p) == p.ty = "str" /\ InSeq(p.v, DEFAULT_PAGE_KEYS)
        kept == IF val.kind = "list" THEN SelectSeq(val.items, IsPage) ELSE <<>>
        named == [n \in DOMAIN kept |-> kept[n].v]
        some == IF named = <<>> THEN DEFAULT_ENABLED_PAGE_KEYS ELSE named
        pages == IF InSeq("settings", some) THEN some
                 ELSE Append(some, "settings")
        IsEnabled(p) == InSeq(p, pages)
        ordered == SelectSeq(DEFAULT_PAGE_KEYS, IsEnabled)
    IN AppendMissing(pages, 1, ordered)

\* settings.py:193-218  the Settings built from the decoded object
SettingsFrom(data) ==
    LET custom_actions == coerce_custom_actions(data.custom_actions)
    IN [media_source |-> coerce_media_source(data.media_source),
        spotify_client_id |->
            OrEmpty(coerce_optional_str(data.spotify_client_id)),
        spotify_device_id |-> coerce_optional_str(data.spotify_device_id),
        demo_mode |-> coerce_bool(data.demo_mode, FALSE),
        music_poll_ms |-> coerce_int(data.music_poll_ms, 500, 250, 3000),
        theme |-> coerce_theme(data.theme),
        quick_actions |->
            coerce_quick_actions(data.quick_actions, custom_actions),
        custom_actions |-> custom_actions,
        enabled_pages |-> coerce_enabled_pages(data.enabled_pages),
        lyrics_cache |-> coerce_lyrics_cache(data.lyrics_cache)]

\* settings.py:185-218  load_settings: the file is absent; reading or
\* decoding it raises inside the try; the decoded value has no get
\* (AttributeError at line 193, outside the try); or it is an object
load_settings(file) ==
    IF file.kind = "absent" THEN Returned(DefaultSettings)
    ELSE IF file.kind \in {"unreadable", "not_json"}
    THEN Returned(DefaultSettings)
    ELSE IF file.kind \in NonObjectKinds THEN Raised
    ELSE Returned(SettingsFrom(file.data))

StrList(s) == ListOf([n \in DOMAIN s |-> Val("str", s[n])])

\* settings.py:223  json.dumps(asdict(s)) as json.loads decodes it again:
\* the dataclasses become objects, the lists lists, the texts, integers,
\* booleans and None their JSON values
AsJson(s) ==
    [media_source |-> Val("str", s.media_source),
     spotify_client_id |-> Val("str", s.spotify_client_id),
     spotify_device_id |-> s.spotify_device_id,
     demo_mode |-> Val("bool", IF s.demo_mode THEN 1 ELSE 0),
     music_poll_ms |-> Val("int", s.music_poll_ms),
     theme |-> Val("str", s.theme),
     quick_actions |-> StrList(s.quick_actions),
     custom_actions |->
         ListOf([n \in DOMAIN s.custom_actions |->
                    ActionEntry(Val("str", s.custom_actions[n].key),
                                Val("str", s.custom_actions[n].title),
                                Val("str", s.custom_actions[n].command),
                                Val("int", s.custom_actions[n].timeout_ms))]),
     enabled_pages |-> StrList(s.enabled_pages),
     lyrics_cache |-> s.lyrics_cache]

\* settings.py:221-223  save_settings
SaveSettings(s) ==
    /\ st_pc = "idle"
    /\ st_pc' = "written"
    /\ st_file' = ObjectFile(AsJson(s))
    /\ st_writer' = "save_settings"
    /\ st_saved' = s
    /\ UNCHANGED st_ret
    /\ UNCHANGED nonStVars

\* the file is written by something else than save_settings
ExternalWrite(file) ==
    /\ st_pc = "idle"
    /\ st_pc' = "written"
    /\ st_file' = file
    /\ st_writer' = "other"
    /\ UNCHANGED <<st_saved, st_ret>>
    /\ UNCHANGED nonStVars

\* settings.py:230-232  reset_settings
ResetSettings ==
    /\ st_pc = "written"
    /\ st_pc' = "reset"
    /\ st_file' = NoFile
    /\ st_writer' = "none"
    /\ UNCHANGED <<st_saved, st_ret>>
    /\ UNCHANGED nonStVars

\* settings.py:185-218  one call of load_settings
LoadSettings ==
    /\ st_pc \in {"idle", "written", "reset"}
    /\ st_pc' = "loaded"
    /\ st_ret' = load_settings(st_file)
    /\ UNCHANGED <<st_file, st_writer, st_saved>>
    /\ UNCHANGED nonStVars

\* the lists of at most n items of S
ListsOf(S, n) == UNION {[1..m -> S] : m \in 0..n}

\* the Settings values drawn: their quick-action keys are built-in keys or
\* keys of their custom actions
SavedSettings ==
    {[media_source |-> sc.media_source,
      spotify_client_id |-> sc.spotify_client_id,
      spotify_device_id |-> sc.spotify_device_id,
      demo_mode |-> sc.demo_mode,
      music_poll_ms |-> sc.music_poll_ms,
      theme |-> sc.theme,
      quick_actions |-> q,
      custom_actions |-> c,
      enabled_pages |-> p,
      lyrics_cache |-> l] :
        sc \in SavedScalars,
        p \in ListsOf(SavedPageKeys, MaxPages) \ {<<>>},
        l \in SavedCaches,
        <<q, c>> \in {x \in ListsOf(SavedQuickKeys, MaxQuick)
                                \X SavedCustomLists :
                         \A n \in DOMAIN x[1] :
                             \/ x[1][n] \in VALID_ACTION_KEYS
                             \/ \E a \in DOMAIN x[2] : x[2][a].key = x[1][n]}}

\* the objects drawn for a file that save_settings did not write: one key
\* at a time, and the two lists of actions together
ExternalData ==
    {[NoData EXCEPT !.media_source = v] : v \in MediaSourceVals}
    \cup {[NoData EXCEPT !.spotify_client_id = v] : v \in OptionalStrVals}
    \cup {[NoData EXCEPT !.spotify_device_id = v] : v \in OptionalStrVals}
    \cup {[NoData EXCEPT !.demo_mode = v] : v \in BoolVals}
    \cup {[NoData EXCEPT !.music_poll_ms = v] : v \in IntVals}
    \cup {[NoData EXCEPT !.theme = v] : v \in ThemeVals}
    \cup {[NoData EXCEPT !.enabled_pages = v] :
              v \in {NotAList}
                  \cup {ListOf(p) : p \in ListsOf(PageItems, MaxPages)}}
    \cup {[NoData EXCEPT !.lyrics_cache = v] :
              v \in SavedCaches \cup {Dict("k" :> NotAList @@ "123" :> Absent)}}
    \cup {[NoData EXCEPT !.quick_actions = q, !.custom_actions = c] :
              q \in {NotAList}
                  \cup {ListOf(k) : k \in ListsOf(KeyItems, MaxQuick)},
              c \in {NotAList}
                  \cup {ListOf(a) : a \in ListsOf(ActionEntries, MaxQuick)}}

StNext ==
    \/ \E s \in IfIdle(st_pc, SavedSettings) : SaveSettings(s)
    \/ \E data \in IfIdle(st_pc, ExternalData) :
           ExternalWrite(ObjectFile(data))
    \/ \E kind \in IfIdle(st_pc, {"unreadable", "not_json"} \cup NonObjectKinds) :
           ExternalWrite(FileOf(kind))
    \/ ResetSettings
    \/ LoadSettings

StSpec == Init /\ [][StNext]_vars

(* ------------------------------------------------------------------------
   DeckWindow under settings changes (window.py:532-546, 909-926): the
   custom actions defined, the triggers and the cancel requests of the
   drawer.  The drawer is not part of the sources read; its requests are
   steps of the environment, for any key.
   ------------------------------------------------------------------------ *)

\* window.py:920  key in self._custom_actions, for a trigger
TriggerDefined(k, t) ==
    /\ k \in window_actions
    /\ SoloTrigger(k, t)

\* window.py:797-801, 544  _on_settings_changed -> _apply_settings:
\* self._custom_actions is rebuilt from the new settings
ApplySettings(keys) ==
    /\ window_actions' = keys
    /\ UNCHANGED cancel_seen
    /\ UNCHANGED nonDefsVars

\* window.py:924-926, 967-972  _on_quick_action_canceled: the request is
\* passed to _cancel_custom_action when the key is in self._custom_actions,
\* and the event is set when the key is running
CancelRequested(k) ==
    /\ cancel_seen' = [key |-> k, passed |-> k \in window_actions]
    /\ cancel_event' = IF k \in window_actions /\ KeyIsRunning(k)
                       THEN [cancel_event EXCEPT ![running[k].run] = TRUE]
                       ELSE cancel_event
    /\ UNCHANGED window_actions
    /\ UNCHANGED <<running, coro, wkey, wtimeout, workerVars, envVars, sigVars,
                   hist>>
    /\ UNCHANGED nonCancelVars

\* one execution at a time, of commands that print nothing and have no
\* timeout, under settings changes and cancel requests
DefsNext ==
    \/ \E k \in Keys : TriggerDefined(k, 0)
    \/ \E keys \in SUBSET Keys : ApplySettings(keys)
    \/ \E k \in Keys : CancelRequested(k)
    \/ \E w \in Runs : TaskStep(w)
    \/ \E w \in Runs : OnActionError(w)
    \/ \E w \in Runs : OnActionFinished(w)
    \/ \E w \in Runs : Reap(w)
    \/ \E w \in Runs : WorkerStep(w)
    \/ \E w \in Runs : ProcExit(w)

DefsSpec == Init /\ [][DefsNext]_vars

(* ------------------------------------------------------------------------
   DeckWindow._poll_music (window.py:631-638): every tick of the timer
   creates a task that awaits MediaManager.get_state and applies the
   snapshot.  MprisService.now_playing runs under its lock from the first
   await to the return (mpris.py:96-142), so the reads of the remote player
   end in the order they began; SpotifyProvider.get_state awaits
   asyncio.to_thread(client.current_playback) outside any lock
   (spotify_provider.py:103-114), so its reads end in any order.
   ------------------------------------------------------------------------ *)

\* an earlier poll of the remote player has not returned
EarlierMprisPoll(p) ==
    \E o \in MusicPollIds :
        /\ mpoll[o].pc = "get_state"
        /\ mpoll[o].provider = "mpris"
        /\ mpoll[o].started < mpoll[p].started

\* mpris.py:97, spotify_provider.py:110-114  when the get_state of the
\* poll can return
MayReturn(p) ==
    mpoll[p].provider = "mpris" => ~EarlierMprisPoll(p)

\* window.py:631-636, media.py:72-75  the timer fires: the task is created,
\* resolves the provider and awaits its get_state
PollMusic(p) ==
    /\ polls_started < MaxTicks
    /\ mpoll[p].pc = "free"
    /\ \A o \in MusicPollIds : o < p => mpoll[o].pc # "free"
    /\ polls_started' = polls_started + 1
    /\ mpoll' = [mpoll EXCEPT ![p] = [pc |-> "get_state",
                                      started |-> polls_started + 1,
                                      provider |-> media_source]]
    /\ UNCHANGED applied_poll
    /\ UNCHANGED nonTickVars

\* window.py:636-638  get_state returned: the snapshot goes to
\* _maybe_update_lyrics and to page_music.set_now_playing, the task ends
PollMusicReturned(p) ==
    /\ mpoll[p].pc = "get_state"
    /\ MayReturn(p)
    /\ applied_poll' = mpoll[p].started
    /\ mpoll' = [mpoll EXCEPT ![p] = NoMusicPoll]
    /\ UNCHANGED polls_started
    /\ UNCHANGED nonTickVars

TickNext ==
    \/ \E p \in MusicPollIds : PollMusic(p)
    \/ \E p \in MusicPollIds : PollMusicReturned(p)
    \/ \E source \in Sources : SwitchSource(source)

TickSpec == Init /\ [][TickNext]_vars

(* ------------------------------------------------------------------------
   The playback transfer (window.py:877-891, media.py:104-125,
   spotify_provider.py:261-269).  _spotify_transfer_async awaits the
   coroutine of the facade, which awaits the coroutine of the provider:
   when the provider returns or raises, the facade and the shell go on
   within the same step of the event loop.
   ------------------------------------------------------------------------ *)

\* spotify_provider.py:263-269  the device id of the provider after the
\* awaited transfer call: the assignment follows the call inside the try
DeviceAfterAlways(device, out) == device
DeviceAfter(device, out) == IF out = "ok" THEN device ELSE sp_device_id

\* media.py:116-125  what _run_action returns for the way the provider's
\* coroutine ended
FacadeResult(out) ==
    CASE out = "ok" -> NoError
      [] out = "media_error" -> "user_message"
      [] OTHER -> "Media control failed"

\* window.py:884-891  the shell's continuation: an error is shown, else
\* the device id is put in the settings and these are saved
SavedAfter(device, err) == IF err # NoError THEN saved_device_id ELSE device

\* the facade has returned err to the shell, the task ends
TransferEnds(t, kind, out, provider_after) ==
    /\ sp_device_id' = provider_after
    /\ saved_device_id' = SavedAfter(xfer[t].device, FacadeResult(out))
    /\ xfer' = [xfer EXCEPT ![t] = NoTransfer]
    /\ xfer_hist' = [kind |-> kind, device |-> xfer[t].device,
                     err |-> FacadeResult(out),
                     provider_before |-> sp_device_id,
                     provider_after |-> provider_after,
                     saved_before |-> saved_device_id,
                     saved_after |-> SavedAfter(xfer[t].device,
                                                FacadeResult(out))]

\* media.py:117-120, 50-51, spotify_provider.py:262  _run_action with the
\* lock: the remote player's transfer_playback returns None at once; the
\* cloud provider's awaits _get_client
TransferLocked(t, rec) ==
    IF media_source = "mpris"
    THEN /\ sp_device_id' = sp_device_id
         /\ saved_device_id' = SavedAfter(rec.device, NoError)
         /\ xfer' = [xfer EXCEPT ![t] = NoTransfer]
         /\ xfer_hist' = [kind |-> "mpris", device |-> rec.device,
                          err |-> NoError,
                          provider_before |-> sp_device_id,
                          provider_after |-> sp_device_id,
                          saved_before |-> saved_device_id,
                          saved_after |-> SavedAfter(rec.device, NoError)]
         /\ UNCHANGED media_lock
    ELSE /\ xfer' = [xfer EXCEPT ![t] = [rec EXCEPT !.pc = "client"]]
         /\ media_lock' = t
         /\ UNCHANGED <<sp_device_id, saved_device_id, xfer_hist>>

\* window.py:877-883, media.py:104-119  _on_spotify_transfer with the
\* device picked on the settings page: the task is created and calls the
\* facade, which resolves the provider and enters the lock or waits
OnSpotifyTransfer(t, device) ==
    /\ xfer[t].pc = "idle"
    /\ LET rec == [NoTransfer EXCEPT !.device = device]
       IN IF media_lock # 0
             \/ \E q \in TransferIds \ {t} : xfer[q].pc = "wait_lock"
          THEN /\ xfer' = [xfer EXCEPT ![t] = [rec EXCEPT !.pc = "wait_lock"]]
               /\ UNCHANGED <<sp_device_id, saved_device_id, xfer_hist,
                              media_lock>>
          ELSE TransferLocked(t, rec)
    /\ UNCHANGED <<media_source, mcall>>
    /\ UNCHANGED nonTransferVars

\* media.py:119  a waiting transfer gets the lock
TransferLockAcquired(t) ==
    /\ xfer[t].pc = "wait_lock"
    /\ media_lock = 0
    /\ TransferLocked(t, xfer[t])
    /\ UNCHANGED <<media_source, mcall>>
    /\ UNCHANGED nonTransferVars

\* spotify_provider.py:262-264  _get_client has ended: with the client,
\* and the transfer call is awaited, or with MediaError or with another
\* exception, which leave _run_action
TransferClient(t, out) ==
    /\ xfer[t].pc = "client"
    /\ IF out = "ok"
       THEN /\ xfer' = [xfer EXCEPT ![t].pc = "api"]
            /\ UNCHANGED <<sp_device_id, saved_device_id, xfer_hist,
                           media_lock>>
       ELSE /\ TransferEnds(t, "client_failed", out, sp_device_id)
            /\ media_lock' = 0
    /\ UNCHANGED <<media_source, mcall>>
    /\ UNCHANGED nonTransferVars

\* spotify_provider.py:264-269, media.py:119-125, window.py:884-891  the
\* transfer call has ended: it returned, or raised SpotifyException, made
\* a MediaError by _translate_error, or raised another exception
TransferDone(t, out) ==
    /\ xfer[t].pc = "api"
    /\ TransferEnds(t, IF out = "ok" THEN "api_ok" ELSE "api_failed", out,
                    DeviceAfter(xfer[t].device, out))
    /\ media_lock' = 0
    /\ UNCHANGED <<media_source, mcall>>
    /\ UNCHANGED nonTransferVars

\* how _get_client and the transfer call can end
TransferOutcomes == {"ok", "media_error", "raised"}

XferNext ==
    \/ \E t \in TransferIds, device \in DeviceIds : OnSpotifyTransfer(t, device)
    \/ \E t \in TransferIds : TransferLockAcquired(t)
    \/ \E t \in TransferIds, out \in TransferOutcomes : TransferClient(t, out)
    \/ \E t \in TransferIds, out \in TransferOutcomes : TransferDone(t, out)
    \/ \E source \in Sources : SwitchSource(source)
    \/ \E creds \in BOOLEAN : UpdateConfig(creds)

XferSpec == Init /\ [][XferNext]_vars

----------------------------------------------------------------------------
(* Claims about the lyrics resolver *)

\* C7: a resolver outcome (lyrics, not-found or failure) computed for one
\* fingerprint is written to the held lyrics, the display or the cache only
\* by the task that is the current one for the current fingerprint, never
\* after the fingerprint has changed; and every fingerprint change cancels
\* the fetch in flight and replaces held and displayed lyrics, in that same
\* step, by nothing or by the new fingerprint's cached lyrics.
NoStaleLyricsWrite ==
    /\ [](lyr_hist.writer # 0 =>
             /\ lyr_hist.key = lyrics_track_key
             /\ lyr_hist.current)
    /\ [](/\ held_lyrics \in {NoLyrics, lyrics_track_key}
          /\ shown_lyrics \in {NoLyrics, lyrics_track_key}
          /\ \A f \in Fingerprints : lyrics_cache[f] \in {NoLyrics, f})
    /\ [][lyrics_track_key' # lyrics_track_key =>
             /\ \A t \in FetchIds :
                    ftask[t].st = "pending" =>
                        ftask'[t].st = "cancelled" /\ lyrics_task' # t
             /\ held_lyrics' \in {NoLyrics, lyrics_track_key'}
             /\ shown_lyrics' = held_lyrics'
             /\ held_lyrics' = IF lyrics_track_key' = NoKey THEN NoLyrics
                               ELSE lyrics_cache[lyrics_track_key']]_vars

\* C7 witness: the fingerprint went away and came back while the first
\* fetch was still suspended; the fetch started for the return has written.
ReturnedFingerprintWritten ==
    /\ lyr_hist.writer # 0
    /\ \E t \in FetchIds :
           /\ t # lyr_hist.writer
           /\ ftask[t].st = "cancelled"
           /\ ftask[t].key = lyrics_track_key

----------------------------------------------------------------------------
\* C1 (as claimed): for every action key at most one command execution is
\* running at any time; a trigger that arrives while an earlier trigger of
\* the same key has not completed starts no second worker.
OneExecutionPerKey ==
    \A w1, w2 \in Runs :
        (w1 # w2 /\ Executing(w1) /\ Executing(w2)) => wkey[w1] # wkey[w2]

\* C2 (as claimed): every completion event has at most one of timed_out
\* and canceled set.
CompletionFlagsExclusive ==
    \A w \in Runs : finQ[w] # NoFin => ~(finQ[w][2] /\ finQ[w][3])

\* C3 (as claimed, for runs that emitted no error event): a command with a
\* positive timeout that is still running when its elapsed time exceeds the
\* timeout, with no cancel requested, completes with timed_out and not
\* canceled, and once the completion is handled the key is not in the
\* running map.
TimeoutWhileRunningReported ==
    \A w \in Runs :
        /\ (finQ[w] # NoFin /\ hist[w].overdue_alive /\ ~cancel_event[w]
                /\ ~hist[w].errored)
               => (finQ[w][2] /\ ~finQ[w][3])
        /\ hist[w].handled >= 1 => ~KeyIsRunning(wkey[w])

\* C3 (amended): when the poll loop finds the elapsed time above a positive
\* timeout and no cancel is requested, the completion event has timed_out
\* and not canceled, and once the completion is handled the key is not in
\* the running map.
ObservedTimeoutReported ==
    \A w \in Runs :
        /\ (finQ[w] # NoFin /\ hist[w].overdue_seen /\ ~cancel_event[w])
               => (finQ[w][2] /\ ~finQ[w][3])
        /\ hist[w].handled >= 1 => ~KeyIsRunning(wkey[w])

\* C3 witness: a completion of a run whose loop saw the timeout exceeded,
\* never canceled, has been handled.
ObservedTimeoutHandled ==
    \E w \in Runs :
        hist[w].overdue_seen /\ ~cancel_event[w] /\ hist[w].handled = 1

ExactlyOneCompletion ==
    \A w \in Runs :
        /\ hist[w].finished <= 1
        /\ hist[w].handled <= hist[w].finished
        /\ (coro[w] = "done") <=> (hist[w].finished = 1)
        /\ (finQ[w] # NoFin) => (hist[w].finished = 1 /\ hist[w].handled = 0)
        /\ (hist[w].spawn_failed /\ hist[w].handled = 0) =>
               /\ finQ[w] = <<1, FALSE, FALSE>>
               /\ errQ[w] \/ running[wkey[w]].last_line = "err"
        /\ hist[w].handled >= 1 => ~KeyIsRunning(wkey[w])

\* C5 witness: the completion of a failed spawn has been handled.
SpawnFailureHandled ==
    \E w \in Runs :
        hist[w].spawn_failed /\ hist[w].handled = 1 /\ coro[w] = "done"

\* C6 (as claimed, from the moment the worker has observed the flag): once
\* the loop has seen the cancel flag, the run eventually emits a completion
\* event with canceled set, whatever the child does.
CancelLeadsToCompletion ==
    \A w \in Runs :
        [](((canceled[w] /\ Executing(w))) => <>(finQ[w] # NoFin /\ finQ[w][3]))

----------------------------------------------------------------------------
(* Claims about fetch_synced *)

NoneProducedLyrics ==
    \A j \in 1..Len(fs_outcomes) : fs_outcomes[j] # "lyrics"
SomeNotFound ==
    \E j \in 1..Len(fs_outcomes) : fs_outcomes[j] = "not_found"
SomeOtherFailure ==
    \E j \in 1..Len(fs_outcomes) : fs_outcomes[j] \in {"none", "raised"}

\* C8 (as claimed): a finished fetch_synced has raised not-found exactly
\* when no candidate produced lyrics, some candidate was not found and none
\* failed otherwise; when none produced lyrics and some candidate failed
\* otherwise, it has returned no-lyrics without raising.
NotFoundIffAllNotFound ==
    fs_pc = "done" =>
        /\ (fs_result.kind = "raised_not_found") <=>
               (NoneProducedLyrics /\ SomeNotFound /\ ~SomeOtherFailure)
        /\ (NoneProducedLyrics /\ SomeOtherFailure) => fs_result.kind = "none"

\* C9: the candidates are requested one at a time in list order, no request
\* follows a candidate that gave parsed lyrics, and returned lyrics are
\* those of that candidate, whatever the earlier ones gave.
InOrderUntilFirstLyrics ==
    /\ fs_requested = [j \in 1..Len(fs_requested) |-> j]
    /\ Len(fs_outcomes) = Len(fs_requested) - (IF fs_pc = "await" THEN 1 ELSE 0)
    /\ \A j \in 1..Len(fs_outcomes) :
           fs_outcomes[j] = "lyrics" =>
               /\ j = Len(fs_requested)
               /\ fs_pc = "done"
               /\ fs_result = [kind |-> "lyrics", from |-> j]
    /\ fs_result.kind = "lyrics" =>
           /\ fs_result.from = Len(fs_outcomes)
           /\ fs_outcomes[fs_result.from] = "lyrics"

\* C9 witness: the third candidate gave the returned lyrics after one
\* not-found and one other failure, and a fourth was never requested.
ThirdCandidateReturned ==
    /\ fs_pc = "done"
    /\ fs_result = [kind |-> "lyrics", from |-> 3]
    /\ fs_outcomes[1] = "not_found"
    /\ fs_outcomes[2] = "none"
    /\ fs_n > 3
    /\ Len(fs_requested) = 3

----------------------------------------------------------------------------
(* Claims about _build_query_candidates *)

RawTitle == Strip(q_in.track_name)
RawArtist == Strip(q_in.artist_name)
CleaningChanges ==
    clean_title(RawTitle) # RawTitle \/ clean_artist(RawArtist) # RawArtist
IsRawEntry(e) == e.track_name = RawTitle /\ e.artist_name = RawArtist
IsCleanedEntry(e) ==
    /\ e.track_name = clean_title(RawTitle)
    /\ e.artist_name = clean_artist(RawArtist)
CleanedAfterRaw ==
    /\ \E i \in 1..Len(q_out) : IsCleanedEntry(q_out[i])
    /\ \A i, j \in 1..Len(q_out) :
           IsCleanedEntry(q_out[i]) /\ IsRawEntry(q_out[j]) => j < i
NoDuplicateEntry ==
    \A i, j \in 1..Len(q_out) : i # j => q_out[i] # q_out[j]
\* every entry has one duration d >= 1, the whole number of seconds nearest
\* to the input where that is 1 or more
DurationRounded ==
    \A i \in 1..Len(q_out) :
        LET d == q_out[i].duration IN
        /\ d >= 1
        /\ d > 1 => /\ 1000 * d - q_in.duration_ms <= 500
                    /\ q_in.duration_ms - 1000 * d <= 500
        /\ d = 1 => q_in.duration_ms <= 1500

\* C10 (as claimed, for calls with a title and an artist that are not
\* blank): the list has no two equal entries, every entry carries
\* the input duration rounded to whole seconds and at least 1, and whenever
\* cleaning changes the title or the artist the cleaned pair is in the list
\* after the raw-pair entries.
CandidatesAsClaimed ==
    (q_pc = "done" /\ RawTitle # <<>> /\ RawArtist # <<>>) =>
        /\ NoDuplicateEntry
        /\ DurationRounded
        /\ CleaningChanges => CleanedAfterRaw

\* C10 (amended): the same, the cleaned pair being required only when the
\* cleaned title and the cleaned artist are both non-empty.
CandidatesCleanedWhenNonEmpty ==
    q_pc = "done" =>
        /\ NoDuplicateEntry
        /\ DurationRounded
        /\ (/\ CleaningChanges
            /\ clean_title(RawTitle) # <<>>
            /\ clean_artist(RawArtist) # <<>>) => CleanedAfterRaw

\* C10 witness: cleaning changed both the title and the artist, and the list
\* holds raw-pair entries followed by the cleaned pair.
RawThenCleanedListed ==
    /\ q_pc = "done"
    /\ clean_title(RawTitle) # RawTitle
    /\ clean_artist(RawArtist) # RawArtist
    /\ \E j \in 1..Len(q_out) : IsRawEntry(q_out[j])
    /\ CleanedAfterRaw
    /\ Len(q_out) >= 3

----------------------------------------------------------------------------
(* Claims about line_at *)

\* C11: for a list sorted by timestamp, line_at returns the empty string
\* when the list is empty or the position is before the first timestamp,
\* and otherwise the text of the last line whose timestamp is at or before
\* the position.
LineAtIsLastAtOrBefore ==
    la_pc = "done" =>
        IF la_lines = <<>> \/ la_pos < la_lines[1].at_ms
        THEN la_ret = ""
        ELSE LET upto == {i \in 1..Len(la_lines) : la_lines[i].at_ms <= la_pos}
                 last == CHOOSE i \in upto : \A k \in upto : k <= i
             IN la_ret = la_lines[last].text

\* C11 witness: the position lies between two timestamps, after two lines
\* of one timestamp, and the text returned is not the list's last.
LineBetweenReturned ==
    /\ la_pc = "done"
    /\ Len(la_lines) = 3
    /\ la_lines[1].at_ms = la_lines[2].at_ms
    /\ la_lines[2].at_ms <= la_pos
    /\ la_pos < la_lines[3].at_ms
    /\ la_lines[1].text # la_lines[2].text
    /\ la_lines[2].text # la_lines[3].text
    /\ la_ret = la_lines[2].text

----------------------------------------------------------------------------
(* Claims about _parse_synced_lyrics *)

Orderings(lines) ==
    {[i \in 1..Len(lines) |-> lines[p[i]]] :
        p \in {q \in [1..Len(lines) -> 1..Len(lines)] :
                  \A i, j \in 1..Len(lines) : i # j => q[i] # q[j]}}
SamePairs(a, b) ==
    /\ Len(a) = Len(b)
    /\ {a[i] : i \in 1..Len(a)} = {b[i] : i \in 1..Len(b)}
\* the text of every line encoded is what strip() leaves: not blank, no
\* white space around it
PlainTexts(lines) ==
    \A i \in 1..Len(lines) :
        lines[i].text # <<>> /\ Strip(lines[i].text) = lines[i].text

\* C12 (as claimed, for a non-empty set of lines with plain texts): parsing
\* the encoding of the lines gives the same (timestamp, text) pairs, sorted
\* ascending by timestamp, and the same sequence for every ordering of the
\* lines.
ParseRoundTrip ==
    (lp_pc = "done" /\ lp_in # <<>> /\ PlainTexts(lp_in)) =>
        /\ ~lp_out.none
        /\ SamePairs(lp_out.lines, lp_in)
        /\ SortedByAt(lp_out.lines)
        /\ \A o \in Orderings(lp_in) :
               parse_synced_lyrics(EncodeLrc(o)) = lp_out

----------------------------------------------------------------------------
(* Claims about _coerce_lyrics_cache *)

\* an entry the claim keeps: at_ms an integer that is not negative, text a
\* string
ValidEntry(entry) ==
    /\ entry.dict
    /\ entry.at_ms.ty = "int" /\ entry.at_ms.v >= 0
    /\ entry.text.ty = "str"
ItemsOf(value) == IF value.kind = "list" THEN value.items ELSE <<>>

\* C13 (as claimed): the load keeps, for every str key holding a list,
\* exactly the valid entries, unchanged and in order, keeps nothing of any
\* other key, and applied to its own result removes nothing more.
LoadDropsExactlyInvalid ==
    cc_pc = "done" =>
        /\ cc_out.dict
        /\ \A k \in CacheKeys :
               ItemsOf(cc_out.map[k]) =
                   IF cc_in.dict /\ k \in StrKeys
                   THEN SelectSeq(ItemsOf(cc_in.map[k]), ValidEntry)
                   ELSE <<>>
        /\ coerce_lyrics_cache(cc_out) = cc_out

----------------------------------------------------------------------------
(* Claims about the persisted lyrics cache *)

\* C14 (as claimed): an entry of the lyrics cache goes away only in a
\* clear-cache step, whatever polls, settings changes, transfers and
\* restarts happen; and a poll that makes a cached fingerprint current
\* shows the cached lyrics and starts no fetch.
CacheEntryStaysUntilCleared ==
    /\ [][\A f \in Fingerprints :
              (lyrics_cache[f] # NoLyrics /\ lyrics_cache'[f] = NoLyrics)
                  => last_op' = "clear"]_vars
    /\ [][(/\ lyrics_track_key' # lyrics_track_key
            /\ lyrics_track_key' # NoKey
            /\ last_op' = last_op
            /\ lyrics_cache[lyrics_track_key'] # NoLyrics)
           => /\ held_lyrics' = lyrics_cache[lyrics_track_key']
              /\ shown_lyrics' = held_lyrics'
              /\ lyrics_task' = 0
              /\ \A t \in FetchIds : ftask'[t].st # "pending"]_vars

----------------------------------------------------------------------------
(* Claims about MediaManager *)

ControlsMutuallyExclusive ==
    /\ \A c, d \in CallIds :
           (/\ mcall[c].op = "control" /\ mcall[c].pc = "in_provider"
            /\ mcall[d].op = "control" /\ mcall[d].pc = "in_provider")
           => c = d
    /\ \A c \in CallIds :
           (mcall[c].op = "control" /\ mcall[c].pc = "in_provider")
           <=> media_lock = c
    /\ media_lock \in CallIds \cup {0}

\* C16 witness: a control has failed, the next one is inside the provider
\* and a third waits for the mutex.
FailedControlDidNotBlock ==
    \E c, d, e \in CallIds :
        /\ mcall[c].op = "control" /\ mcall[c].pc = "done"
        /\ mcall[c].outcome = "exception"
        /\ mcall[d].op = "control" /\ mcall[d].pc = "in_provider"
        /\ media_lock = d
        /\ mcall[e].pc = "wait_lock"

\* C17: every finished mutating call has returned null when the provider
\* call completed, the provider's message on a MediaError and the generic
\* message on any other exception; nothing is raised to the caller.
ControlReturnsNullOrMessage ==
    \A c \in CallIds :
        (mcall[c].op = "control" /\ mcall[c].pc = "done")
        => /\ mcall[c].result.kind \in {"null", "error"}
           /\ mcall[c].result.kind = "null" <=> mcall[c].outcome = "ok"
           /\ mcall[c].result.kind = "error" => mcall[c].result.message # ""
           /\ mcall[c].outcome = "media_error"
                  => mcall[c].result.message = "provider message"
           /\ mcall[c].outcome = "exception"
                  => mcall[c].result.message = "Media control failed"

\* C17 witness: one control returned the provider's message, another the
\* generic message and a third null.
ControlsReturnedEachKind ==
    \E c, d, e \in CallIds :
        /\ mcall[c].op = "control" /\ mcall[c].pc = "done"
        /\ mcall[c].result = [kind |-> "error", status |-> "",
                              message |-> "provider message",
                              source |-> ""]
        /\ mcall[d].op = "control" /\ mcall[d].pc = "done"
        /\ mcall[d].result = [kind |-> "error", status |-> "",
                              message |-> "Media control failed",
                              source |-> ""]
        /\ mcall[e].op = "control" /\ mcall[e].pc = "done"
        /\ mcall[e].result.kind = "null"

\* C18 (as claimed): a call that is inside a provider, or has been, was
\* performed on the provider the settings accessor named at the moment
\* the provider call started.
PerformedOnNamedProvider ==
    \A c \in CallIds :
        mcall[c].pc \in {"in_provider", "done"}
        => mcall[c].provider = mcall[c].named

----------------------------------------------------------------------------
(* Claims about MprisService *)

\* the selection the policy prescribes for a non-empty list of names
PolicyChoice(before, names, statuses) ==
    LET playing == {i \in 1..Len(names) : statuses[names[i]] = "Playing"}
    IN IF \E i \in 1..Len(names) : names[i] = before THEN before
       ELSE IF playing # {}
            THEN names[CHOOSE i \in playing : \A j \in playing : i <= j]
            ELSE names[1]

\* C19: whenever a poll has selected among a non-empty list of players,
\* the selected player is the previously chosen one if it is listed,
\* whatever the statuses; else the first listed player reporting Playing;
\* else the first listed player.
SelectionFollowsPolicy ==
    \A p \in PollIds :
        (poll[p].pc \in {"picked", "done"} /\ poll[p].names # <<>>)
        => poll[p].picked =
               PolicyChoice(poll[p].chosen_before, poll[p].names,
                            poll[p].statuses)

\* C19 witness: with a Paused and b Playing one poll selected b, and the
\* next poll, with both Paused, selected b again.
PlayingPickedThenKept ==
    \E p, q \in PollIds :
        /\ poll[p].pc = "done"
        /\ poll[p].names = <<"a", "b">>
        /\ poll[p].chosen_before = NoPlayer
        /\ poll[p].statuses = [n \in Players |->
                                  IF n = "b" THEN "Playing" ELSE "Paused"]
        /\ poll[p].picked = "b"
        /\ poll[q].pc = "picked"
        /\ poll[q].names = <<"a", "b">>
        /\ poll[q].chosen_before = "b"
        /\ poll[q].statuses = [n \in Players |-> "Paused"]
        /\ poll[q].picked = "b"


\* C20 (as claimed): a finished now_playing call during which any error
\* happened, in the enumeration, the status scan or the property reads,
\* has returned the idle state.
AnyErrorYieldsIdle ==
    \A p \in PollIds :
        (poll[p].pc = "done" /\ poll[p].errors # {})
        => poll[p].result = IdleState

\* C20 (amended): now_playing never raises; a finished call has returned
\* the idle state exactly when the enumeration raised, no player was
\* listed or a read of the selected player raised, and otherwise the state
\* of the selected player (a status read that raises during the scan is
\* only skipped); the poll lock is held by exactly the call that is
\* between taking it and returning.
IdleOnListOrReadError ==
    /\ \A p \in PollIds : ~poll[p].result.raised
    /\ \A p \in PollIds :
           poll[p].pc = "done"
           => /\ poll[p].result = IdleState
                 <=> \/ poll[p].errors \cap {"list", "read"} # {}
                     \/ poll[p].names = <<>>
              /\ poll[p].result # IdleState
                 => /\ poll[p].result.bus_name = poll[p].picked
                    /\ poll[p].result.can_control
    /\ \A p \in PollIds :
           poll[p].pc \in {"locked", "listed", "picked"} <=> mpris_lock = p
    /\ mpris_lock \in PollIds \cup {0}

\* C20 witness: one call returned the idle state because a read of the
\* selected player raised, and a call that waited for the lock meanwhile
\* has run and returned a player's state although a status read of its
\* scan raised.
NextPollProceeded ==
    \E p, q \in PollIds :
        /\ poll[q].pc = "done"
        /\ "read" \in poll[q].errors
        /\ poll[q].result = IdleState
        /\ poll[p].pc = "done"
        /\ poll[p].waited
        /\ "scan" \in poll[p].errors
        /\ poll[p].result # IdleState

----------------------------------------------------------------------------
(* Claims about SpotifyProvider *)

\* C21 (as claimed): an operation that ended while the provider had no
\* valid token has failed with the "not signed in" MediaError.
NoTokenFailsNotSignedIn ==
    \A o \in OpIds :
        (sp_op[o].pc = "done" /\ sp_op[o].no_token)
        => sp_op[o].result = SpResult("media_error", "not_signed_in")


\* C21 (amended): an operation that ended while the provider had no valid
\* token has failed with a MediaError: "not signed in" when its token check
\* found no token, an expired token without refresh token, or a refresh
\* that returned nothing; "credentials missing" when there was no auth
\* manager and no credentials to build one.  It has issued no API call
\* after that check, and none at all when it was its first check.
NoTokenFailsWithoutApiCall ==
    \A o \in OpIds :
        (sp_op[o].pc = "done" /\ sp_op[o].no_token)
        => /\ sp_op[o].result.kind = "media_error"
           /\ sp_op[o].stage \in {"creds", "token", "refresh"}
           /\ sp_op[o].stage = "creds"
                  <=> sp_op[o].result.error = "credentials_missing"
           /\ sp_op[o].stage \in {"token", "refresh"}
                  <=> sp_op[o].result.error = "not_signed_in"
           /\ sp_op[o].check = 1 => sp_op[o].calls = 0
           /\ sp_op[o].seen = "valid" => sp_op[o].stage = "creds"

\* C21 witness: one operation failed "not signed in" on an expired token
\* without refresh token, another after a refresh that returned nothing;
\* neither issued an API call.
BothFailedNotSignedIn ==
    \E o, p \in OpIds :
        /\ sp_op[o].pc = "done" /\ sp_op[o].no_token
        /\ sp_op[o].seen = "expired_nort" /\ sp_op[o].calls = 0
        /\ sp_op[o].result = SpResult("media_error", "not_signed_in")
        /\ sp_op[p].pc = "done" /\ sp_op[p].no_token
        /\ sp_op[p].seen = "expired_rt" /\ sp_op[p].stage = "refresh"
        /\ sp_op[p].calls = 0
        /\ sp_op[p].result = SpResult("media_error", "not_signed_in")


\* C22 (as claimed): no operation starts a token refresh after it has
\* issued an API call.
RefreshBeforeAnyApiCall ==
    \A o \in OpIds : ~sp_op[o].late_refresh

\* C22 (amended): a token check that reads an unexpired token attempts no
\* refresh; one that reads an expired token with a refresh token attempts
\* exactly one, and the operation issues its next API call only after the
\* check has ended; the lock is held by exactly the operation that is
\* reading the token or refreshing, so two refreshes never run at once.
TokenChecksSerialized ==
    /\ \A o \in OpIds :
           /\ sp_op[o].refreshed = (IF sp_op[o].seen = "expired_rt" THEN 1 ELSE 0)
           /\ sp_op[o].pc \in {"token", "refresh"} <=> sp_lock = o
           /\ sp_op[o].pc = "token" => sp_op[o].seen = "unread"
           /\ sp_op[o].pc = "refresh" => sp_op[o].seen = "expired_rt"
           /\ sp_op[o].pc \in {"read", "api", "art_api"}
                  => sp_op[o].seen \in {"valid", "expired_rt"}
    /\ \A o, p \in OpIds :
           (sp_op[o].pc = "refresh" /\ sp_op[p].pc = "refresh") => o = p
    /\ sp_lock \in OpIds \cup {0}

\* C22 witness: one operation is refreshing an expired token while the
\* token check of another waits for the lock.
RefreshWhileOtherWaits ==
    \E o, p \in OpIds :
        /\ sp_op[o].pc = "refresh" /\ sp_op[o].seen = "expired_rt"
        /\ sp_op[o].refreshed = 1 /\ sp_op[o].calls = 0
        /\ sp_op[p].pc = "wait_lock"


\* C23 (as claimed): an operation that failed has raised a MediaError,
\* and for a failed API call the one of the taxonomy: premium-required for
\* status 403 with the premium text, no-active-device for status 404 with
\* the no-active-device text, the generic one otherwise; nothing else is
\* raised.
FailuresAreProviderErrors ==
    \A o \in OpIds :
        (sp_op[o].pc = "done" /\ sp_op[o].result.kind # "returned")
        => /\ sp_op[o].result.kind = "media_error"
           /\ sp_op[o].failure.kind # "none"
                  => sp_op[o].result.error =
                         (IF sp_op[o].failure.status = 403
                             /\ sp_op[o].failure.text = "premium"
                          THEN "premium_required"
                          ELSE IF sp_op[o].failure.status = 404
                                  /\ sp_op[o].failure.text = "no active device"
                          THEN "no_active_device"
                          ELSE "generic")

----------------------------------------------------------------------------
(* Claims about the artwork cache of SpotifyProvider *)

\* C24 (as claimed): a poll that overlapped no other poll and resolved
\* the same artwork URL as the poll before it has performed no download.
SameUrlNoDownload ==
    \A p \in ArtPollIds :
        (/\ apoll[p].pc = "done"
         /\ ~apoll[p].overlap
         /\ apoll[p].url # NoUrl
         /\ apoll[p].url = apoll[p].prev_url)
        => apoll[p].downloads = 0

\* C25 (as claimed): two polls that overlapped and resolved the same
\* artwork URL have downloaded it at most once between them.
OverlappingPollsDownloadOnce ==
    \A p, q \in ArtPollIds :
        (/\ p # q
         /\ apoll[p].pc = "done" /\ apoll[q].pc = "done"
         /\ apoll[p].overlap /\ apoll[q].overlap
         /\ apoll[p].url = apoll[q].url)
        => apoll[p].downloads + apoll[q].downloads <= 1

----------------------------------------------------------------------------
(* Claims about SpotifyProvider.authenticate *)

\* C26 (as claimed, for the attempts that started their listener): a
\* finished attempt has exchanged the code for tokens, or failed with the
\* sign-in-canceled error, or failed with the timed-out error having
\* received no request; and its listener has been shut down.
AuthEndsOneOfThreeWays ==
    \A a \in AttemptIds :
        (attempt[a].pc = "done" /\ attempt[a].listener # "none")
        => /\ attempt[a].result \in {"signed_in", "canceled", "timed_out"}
           /\ attempt[a].result = "timed_out" => attempt[a].requests = 0
           /\ attempt[a].listener = "shut_down"

----------------------------------------------------------------------------
(* Claims about _format_custom_command *)

\* the template with every {name} of a non-empty name without braces
\* replaced, by the title for the name of the set and by nothing for any
\* other name, and everything else kept
RECURSIVE Interpolated(_, _, _)
Interpolated(t, i, title) ==
    IF i > Len(t) THEN <<>>
    ELSE LET closing == {j \in (i + 2)..Len(t) :
                            /\ t[j] = "}"
                            /\ \A k \in (i + 1)..(j - 1) : t[k] \notin Braces}
         IN IF t[i] = "{" /\ closing # {}
            THEN LET j == CHOOSE j \in closing : TRUE
                 IN (IF SubSeq(t, i + 1, j - 1) = <<"T">> THEN title ELSE <<>>)
                    \o Interpolated(t, j + 1, title)
            ELSE <<t[i]>> \o Interpolated(t, i + 1, title)

\* the braces of the template pair up as {name} with non-empty names
PlaceholdersOnly(t) ==
    LET at == {i \in 1..Len(t) : t[i] \in Braces}
        rank(i) == Cardinality({k \in at : k <= i})
    IN /\ Cardinality(at) % 2 = 0
       /\ \A i \in at :
              IF rank(i) % 2 = 1
              THEN t[i] = "{" /\ i < Len(t) /\ t[i + 1] \notin Braces
              ELSE t[i] = "}"

----------------------------------------------------------------------------
(* Claims about filter_quick_action_keys *)

\* the positions of the keys given that hold a built-in key or the key of a
\* custom action given, for the first time
FirstQualifying(keys, custom_actions) ==
    {i \in DOMAIN keys :
        /\ keys[i].ty = "str"
        /\ \/ keys[i].v \in VALID_ACTION_KEYS
           \/ \E a \in DOMAIN custom_actions : custom_actions[a].key = keys[i].v
        /\ \A j \in 1..(i - 1) : keys[j] # keys[i]}
NthOf(S, n) == CHOOSE i \in S : Cardinality({j \in S : j <= i}) = n

\* C30: the list returned holds exactly the keys given that are built-in
\* keys or keys of the custom actions given, in the order of their first
\* occurrence and once each; it is the default list when no key given
\* qualifies; filtering the list returned again returns it unchanged.
FilterKeepsKnownKeysOnce ==
    qa_pc = "done" =>
        LET Q == FirstQualifying(qa_keys.items, qa_custom)
        IN /\ Q # {} =>
                  /\ Len(qa_out) = Cardinality(Q)
                  /\ \A n \in DOMAIN qa_out :
                         qa_out[n] = qa_keys.items[NthOf(Q, n)].v
           /\ Q = {} => qa_out = DEFAULT_QUICK_ACTION_KEYS
           /\ filter_quick_action_keys(
                  ListOf([n \in DOMAIN qa_out |-> Val("str", qa_out[n])]),
                  qa_custom) = qa_out

\* C30 witness: an unknown key and a repeated key were dropped and the key
\* of the custom action was kept.
UnknownAndRepeatedDropped ==
    /\ qa_pc = "done"
    /\ qa_keys.items = <<Val("str", "play_pause"), Val("str", "unknown"),
                         Val("str", "run_speedtest"), Val("str", "play_pause"),
                         Val("str", "custom-echo")>>
    /\ qa_custom = <<CustomAction("custom-echo")>>
    /\ qa_out = <<"play_pause", "run_speedtest", "custom-echo">>

----------------------------------------------------------------------------
(* Claims about load_settings and save_settings *)

\* C28 (as claimed): load_settings never raises, and it returns the default
\* Settings when the file is absent, cannot be decoded, or decodes to
\* something that is no object.
LoadNeverRaises ==
    st_pc = "loaded" =>
        /\ ~st_ret.raised
        /\ st_file.kind # "object" => st_ret.settings = DefaultSettings

\* the Settings value is in the form load_settings builds: the enabled
\* pages are in default order, once each, with the settings page; the
\* quick actions are not empty and hold no key twice; no two custom
\* actions share a key; no cached list of lyrics is empty
Normalised(s) ==
    /\ InSeq("settings", s.enabled_pages)
    /\ \A m, n \in DOMAIN s.enabled_pages :
           m < n =>
               \E i, j \in DOMAIN DEFAULT_PAGE_KEYS :
                   /\ i < j
                   /\ DEFAULT_PAGE_KEYS[i] = s.enabled_pages[m]
                   /\ DEFAULT_PAGE_KEYS[j] = s.enabled_pages[n]
    /\ s.quick_actions # <<>>
    /\ \A m, n \in DOMAIN s.quick_actions :
           m # n => s.quick_actions[m] # s.quick_actions[n]
    /\ \A m, n \in DOMAIN s.custom_actions :
           m # n => s.custom_actions[m].key # s.custom_actions[n].key
    /\ \A k \in CacheKeys : s.lyrics_cache.map[k] # ListOf(<<>>)

\* C29 (as claimed): load_settings after save_settings of a Settings value
\* whose fields are within their ranges and sets returns an equal value.
RoundTripEqual ==
    (st_pc = "loaded" /\ st_writer = "save_settings")
        => ~st_ret.raised /\ st_ret.settings = st_saved

\* C29 (amended): load_settings after save_settings of a Settings value
\* whose fields are within their ranges and sets and in the form
\* load_settings builds returns an equal value.
NormalisedRoundTripEqual ==
    (st_pc = "loaded" /\ st_writer = "save_settings" /\ Normalised(st_saved))
        => ~st_ret.raised /\ st_ret.settings = st_saved

\* C29 witness: a Settings value with another theme, a custom action among
\* its quick actions, two pages and cached lyrics came back equal.
CustomisedSettingsCameBack ==
    /\ st_pc = "loaded"
    /\ st_writer = "save_settings"
    /\ st_saved.theme = "glacier"
    /\ st_saved.custom_actions = <<CustomAction("custom-echo")>>
    /\ st_saved.quick_actions = <<"custom-echo", "play_pause">>
    /\ st_saved.enabled_pages = <<"music", "settings">>
    /\ st_saved.lyrics_cache.map["k"] = ListOf(<<SavedEntry>>)
    /\ st_ret = Returned(st_saved)

----------------------------------------------------------------------------
(* Claims about the notification of a completion *)

\* the class the claim gives a completion
ClaimedClass(fin) ==
    IF fin[2] THEN "timed out"
    ELSE IF fin[3] THEN "canceled"
    ELSE IF fin[1] = 0 THEN "succeeded"
    ELSE "failed"

\* what the claim says of every handled completion but the body of the
\* notification
NotifiedOnceByClass(w) ==
    /\ hist[w].toasts = 1
    /\ hist[w].toast.summary = ClaimedClass(hist[w].fin)
    /\ (hist[w].fin[2] \/ hist[w].fin[3])
           => hist[w].toast.summary # "failed" /\ hist[w].toast.level = "WARN"

----------------------------------------------------------------------------
(* Claims about executions of different keys *)

\* a trigger, a task step, an output line, an error, a cancel request or a
\* completion of key A
StepOfKey(A) ==
    \/ \E t \in Timeouts : Trigger(A, t)
    \/ Cancel(A)
    \/ \E w \in Runs :
           /\ wkey[w] = A
           /\ \/ TaskStep(w)
              \/ OnActionOutput(w)
              \/ OnActionError(w)
              \/ OnActionFinished(w)

\* C32: a trigger, output line, error, cancel request or completion of a
\* key leaves the running handle, with its last output line, and the
\* cancellation flag of every other key unchanged.
KeysIndependent ==
    [][\A A \in Keys :
          StepOfKey(A) =>
              \A B \in Keys \ {A} :
                  /\ running'[B] = running[B]
                  /\ KeyIsRunning(B) =>
                         cancel_event'[running[B].run]
                             = cancel_event[running[B].run]]_vars

\* C32 witness: two keys are running, one has shown an output line and the
\* other was asked to cancel and has shown none.
TwoKeysRunningApart ==
    \E A \in Keys, B \in Keys :
        /\ A # B
        /\ KeyIsRunning(A) /\ KeyIsRunning(B)
        /\ running[A].last_line = "out" /\ ~cancel_event[running[A].run]
        /\ running[B].last_line = "" /\ cancel_event[running[B].run]

----------------------------------------------------------------------------
(* Claims about cancel requests under settings changes *)

\* C33 (as claimed): a cancel request for a key that is in the running map
\* sets the cancellation flag of that execution, whether or not the
\* settings still define the action.
CancelAlwaysSetsFlag ==
    [][\A k \in Keys :
          (CancelRequested(k) /\ KeyIsRunning(k))
              => cancel_event'[running[k].run]]_vars

----------------------------------------------------------------------------
(* Claims about the order of the polls of the music *)

\* C34 (as claimed): the snapshot of a poll is never applied after the
\* snapshot of a poll that was started later.
PollsAppliedInStartOrder ==
    [][applied_poll' >= applied_poll]_vars

----------------------------------------------------------------------------
(* Claims about the source of a state read *)

\* C35 (as claimed): the source of the state that get_state returns names
\* the provider that produced it, also when the source configured changed
\* while the provider was read.
SourceNamesProducer ==
    \A c \in CallIds :
        (mcall[c].op = "get_state" /\ mcall[c].pc = "done")
            => mcall[c].result.source = mcall[c].provider

(* Claims about the lyrics fetch task *)

\* the fetch tasks that are neither finished nor cancelled
AliveFetches == {t \in FetchIds : ftask[t].st = "pending"}

\* C36: at most one lyrics fetch task is alive at any time, and a stored
\* task reference that is not None refers to the alive fetch that was
\* started for the current fingerprint
OneFetchForCurrentKey ==
    /\ Cardinality(AliveFetches) <= 1
    /\ lyrics_task # 0 =>
           /\ ftask[lyrics_task].st = "pending"
           /\ ftask[lyrics_task].key = lyrics_track_key

\* the fetch of an earlier fingerprint is cancelled and has not yet
\* returned, while the fetch of the current fingerprint is under way
CancelledBesideCurrentFetch ==
    /\ lyrics_task # 0
    /\ \E t \in FetchIds : t # lyrics_task /\ ftask[t].st = "cancelled"

\* C37: while a fingerprint stays current at most one lookup is started
\* for it: once its fetch has ended, as found, not found or failed, later
\* polls with the same fingerprint start no further fetch
OneLookupWhileCurrent == lookups <= 1

\* the fetch of the current fingerprint has ended without lyrics, so that
\* nothing is cached for it, and no task is stored
FetchEndedWithoutLyrics ==
    /\ lookups = 1
    /\ lyrics_task = 0
    /\ lyr_hist.writer # 0
    /\ lyr_hist.key = lyrics_track_key
    /\ held_lyrics = NoLyrics

(* Claims about the artwork cache under update_config *)

\* spotify_provider.py:365-366, 421-422  what _to_data_url gives for a URL:
\* a data: URL is passed on as it is, an HTTP(S) URL is downloaded
ConversionOf(url) == IF url \in HttpUrls THEN DataUrl(url) ELSE url

\* C38: in every state, with polls of different URLs overlapping and the
\* configuration changing, a cached data URL that is not None is the
\* conversion of the cached URL, for an HTTP(S) URL the encoding of its
\* download; the two cache fields never stem from different URLs
ArtCachePaired ==
    last_art_data_url # NoUrl =>
        /\ last_art_http_url # NoUrl
        /\ last_art_data_url = ConversionOf(last_art_http_url)

\* a poll began its download, update_config emptied the cache meanwhile,
\* the download ended and was cached, and a poll of another URL, which
\* overlapped it, waits for the lock
CachedAfterConfigWhileOtherWaits ==
    \E p, q \in ArtPollIds :
        /\ apoll[p].pc = "done"
        /\ apoll[p].reset
        /\ apoll[p].overlap
        /\ apoll[p].data = DataUrl(apoll[p].url)
        /\ last_art_http_url = apoll[p].url
        /\ last_art_data_url = apoll[p].data
        /\ apoll[q].pc = "wait_lock"
        /\ apoll[q].url \in HttpUrls \ {apoll[p].url}

(* Claims about update_config and the operations under way *)

\* C39: once update_config has returned, no operation called after it
\* holds an auth manager or an API client that was built from the
\* credentials update_config replaced, also when a token lookup or a
\* refresh that began before update_config ends after it
NoPreviousCredentialsUsed ==
    \A o \in OpIds :
        ~sp_op[o].early =>
            /\ sp_op[o].auth # "previous"
            /\ sp_op[o].client # "previous"

----------------------------------------------------------------------------
(* Claims about the playback transfer *)

\* C40: transfer_playback changes the provider's device id only when the
\* transfer call succeeded, and then to the device asked for; when the
\* call or the token check failed the provider's device id is as before;
\* the saved device id changes only when the facade returned None, and
\* then to the device asked for
DeviceIdFollowsSuccess ==
    xfer_hist.kind # "none" =>
        /\ xfer_hist.provider_after # xfer_hist.provider_before =>
               xfer_hist.kind = "api_ok"
        /\ xfer_hist.kind = "api_ok" =>
               xfer_hist.provider_after = xfer_hist.device
        /\ xfer_hist.kind \in {"api_failed", "client_failed"} =>
               xfer_hist.provider_after = xfer_hist.provider_before
        /\ xfer_hist.saved_after # xfer_hist.saved_before =>
               xfer_hist.err = NoError
        /\ xfer_hist.err = NoError =>
               xfer_hist.saved_after = xfer_hist.device

\* after a transfer to one device succeeded, the transfer call to another
\* device failed: both device ids are still the first one
FailedTransferAfterSuccess ==
    /\ xfer_hist.kind = "api_failed"
    /\ xfer_hist.provider_before # NoDevice
    /\ xfer_hist.device # xfer_hist.provider_before
    /\ xfer_hist.device # xfer_hist.saved_before
    /\ sp_device_id = xfer_hist.provider_before
    /\ saved_device_id = xfer_hist.saved_before

====
